---------------------------- MODULE Spec2Model ----------------------------
(***************************************************************************)
(* The animation lifecycle orchestrator of the frontend: the Anime         *)
(* controller, the AnimePresence boundary (list mode and single-child      *)
(* mode) and the AnimeGroup container with its stagger plan.               *)
(*                                                                         *)
(* The state machines of this module, one specification each:              *)
(*   SpecStagger       AnimeGroup.calculateStaggerDelay, child by child    *)
(*   SpecCreateStagger createStagger with linear easing                    *)
(*   SpecSingle        AnimePresence single-child mode over controllers    *)
(*   SpecSingleFair    the same under exit-before-enter, with fairness     *)
(*   SpecList          AnimePresence list mode (the mutation interceptor)  *)
(*   SpecListFair      list mode of a shrinking list, with fairness        *)
(*   SpecNested        list mode with a wrapper around the controllers     *)
(*   SpecFaulty        both modes over an engine that throws on exits      *)
(*   SpecGroup         AnimeGroup (mount, child observer, exit)            *)
(*   SpecGroupBatch    AnimeGroup with varying stagger, direction, delay   *)
(*   SpecApi           Anime controllers driven through their API          *)
(*   SpecDetached      the same with elements that can be detached         *)
(*   SpecAnime         Anime controllers with changing props and gate      *)
(*   SpecRegistry      the presence context's register / unregister        *)
(* A specification leaves the variables of the others unchanged.           *)
(***************************************************************************)
EXTENDS Integers, Sequences, FiniteSets, TLC

\* No element / no handle (undefined, null).
None == 0

Abs(x) == IF x < 0 THEN -x ELSE x

\* Math.floor(total / 2) for total >= 0.
Floor2(x) == x \div 2

SeqToSet(s) == {s[i] : i \in 1..Len(s)}

\* The sequence s without every occurrence of x (Array.filter(e => e !== x)).
Without(s, x) == SelectSeq(s, LAMBDA y : y # x)

\* 1-based position of x in s, 0 when absent.
IndexOf(s, x) == IF \E i \in 1..Len(s) : s[i] = x
                 THEN CHOOSE i \in 1..Len(s) : s[i] = x /\ \A j \in 1..(i-1) : s[j] # x
                 ELSE 0

\* s with x inserted so that it ends at 1-based position p.
InsertAt(s, p, x) == SubSeq(s, 1, p - 1) \o <<x>> \o SubSeq(s, p, Len(s))

(***************************************************************************)
(* Part 1. The stagger plan of AnimeGroup.                                 *)
(***************************************************************************)

\* Largest number of children animated together.
MaxN == 5

VARIABLES
  stagger,      \* props.stagger: [kind |-> "number", ms |-> d], [kind |-> "function", fn |-> name]
                \* or [kind |-> "undefined"]
  direction,    \* props.direction
  total,        \* children.length of the set animated together
  delays        \* delays[i+1] = the delay computed for child i, in forEach order

staggerVars == <<stagger, direction, total, delays>>

\* The stagger functions a caller passes: the test's constant function, and
\* createStagger({base: 50}) with linear easing from "start" and from "end",
\* whose value is base * position * (total - 1) with position = index / (total - 1).
StaggerFns == {"const75", "linearStart50", "linearEnd50"}

\* The normalized position createStagger computes for total > 1, as the
\* exact fraction num / den: index / (total - 1) from the start,
\* 1 - index / (total - 1) from the end, and |center - index| / center
\* with center = (total - 1) / 2 from the center.
StaggerPosition(from, index, totalN) ==
  CASE from = "end"    -> [num |-> (totalN - 1) - index, den |-> totalN - 1]
    [] from = "center" -> [num |-> Abs((totalN - 1) - 2 * index), den |-> totalN - 1]
    [] OTHER           -> [num |-> index, den |-> totalN - 1]

\* A slip: the center is taken as total / 2.
createStaggerCenterOffByHalf(base, from, index, totalN) ==
  IF totalN <= 1 THEN 0
  ELSE LET position == IF from = "center"
                       THEN [num |-> Abs(totalN - 2 * index), den |-> totalN]
                       ELSE StaggerPosition(from, index, totalN)
       IN  (base * position.num * (totalN - 1)) \div position.den

\* createStagger({base, ease: "linear", from})(index, total):
\* base * easedPosition * (total - 1), the eased position being the position.
createStagger(base, from, index, totalN) ==
  IF totalN <= 1 THEN 0
  ELSE LET position == StaggerPosition(from, index, totalN)
       IN  (base * position.num * (totalN - 1)) \div position.den

StaggerFn(fn, index, totalN) ==
  CASE fn = "const75"       -> 75
    [] fn = "linearStart50" -> createStagger(50, "start", index, totalN)
    [] fn = "linearEnd50"   -> createStagger(50, "end", index, totalN)

NumericStaggers == {[kind |-> "number", ms |-> d] : d \in {0, 10, 50, 100}}
NoStagger == [kind |-> "undefined"]
FunctionStaggers == {[kind |-> "function", fn |-> f] : f \in StaggerFns}
Directions == {"forward", "reverse", "center"}

\* props.stagger ?? 50
DefaultStagger == 50

\* The base delay: the function's value at (index, total), or the number.
BaseDelay(st, index, totalN) ==
  IF st.kind = "function" THEN StaggerFn(st.fn, index, totalN)
  ELSE IF st.kind = "number" THEN st.ms
  ELSE DefaultStagger

\* A slip: reverse counted from total instead of total - 1.
calculateStaggerDelayOffByOne(st, dir, index, totalN) ==
  LET baseDelay == BaseDelay(st, index, totalN)
  IN  IF dir = "reverse" THEN baseDelay * (totalN - index)
      ELSE IF dir = "center" THEN baseDelay * Abs(Floor2(totalN) - index)
      ELSE baseDelay * index

\* AnimeGroup.calculateStaggerDelay(index, total), index 0-based.
calculateStaggerDelay(st, dir, index, totalN) ==
  LET baseDelay == BaseDelay(st, index, totalN)
  IN  IF dir = "reverse" THEN baseDelay * (totalN - 1 - index)
      ELSE IF dir = "center"
           THEN LET center == Floor2(totalN)
                    distanceFromCenter == Abs(center - index)
                IN  baseDelay * distanceFromCenter
           ELSE baseDelay * index

(***************************************************************************)
(* Part 2. The animation engine and the Anime controller.                  *)
(*                                                                         *)
(* The operators below are the controller's functions as state             *)
(* transformers: each takes the world w (a record of the variables of the  *)
(* presence family) and returns the world after the call.                  *)
(***************************************************************************)

\* Elements created under one presence boundary.
MaxEl == 3

Els == 1..MaxEl

VARIABLES
  mode,             \* props.mode: "single" | "list"; "group" = an AnimeGroup; "api" = controllers
                    \* whose presence API is called directly; "anime" = controllers whose
                    \* props and mount gate change; "none" = nothing rendered
  hasPresence,      \* useContext(AnimePresenceContext) is defined for the controllers
  initialProp,      \* state.initial = props.initial ?? true
  exitBeforeEnter,  \* props.exitBeforeEnter
  mount,            \* the mount signal (the mount gate)
  exitRegistry,     \* elements with an entry in the WeakMap exitRegistry
  exitingElements,  \* list mode: the Set exitingElements
  currentlyExiting, \* single mode: element of currentlyExiting, None when null
  prev,             \* createSwitchTransition: the computed's previous source value
  returned,         \* createSwitchTransition: the rendered elements, in order
  next,             \* createSwitchTransition: next
  isExiting,        \* createSwitchTransition: isExiting
  listeners,        \* elements carrying the once-listener for "animecomplete"
  ctl,              \* per element: the closure variables of its Anime controller
  handles,          \* every animejsAnimate call so far, in call order
  conts,            \* elements whose playExitAnimation().then continuation is queued
  children,         \* child elements of the observed container, in order
  records,          \* MutationRecords queued for the container's observer
  declared,         \* elements the declared tree currently holds
  nextEl,           \* the next element to be created
  inTask,           \* a task of the host is running (its microtasks not yet drained)
  doneCalls,        \* per element: invocations of the transition's done callback
  playCalls,        \* per element: invocations of playExitAnimation
  observed,         \* list mode: elements whose removal was handed to handleMutations
  threw,            \* list mode: handleMutations calls that ended in an exception
  groupExit,        \* AnimeGroup: props.exit is given
  groupInitial,     \* AnimeGroup: props.initial is given
  initializedChildren, \* AnimeGroup: the WeakSet initializedChildren
  exitingChildren,  \* AnimeGroup: the WeakSet exitingChildren
  animations,       \* AnimeGroup: the array animations, as indices into handles
  cancelCalls,      \* per element: invocations of cancelExitAnimation, through the API or
                    \* by onEnter
  moves,            \* AnimeGroup: reorderings the application has made
  apiOf,            \* per element: the descriptor the WeakMap exitRegistry holds for it
  calls,            \* the register / unregister calls made on the context, in order
  parentOf,         \* per element: the wrapper element it is a child of, None when it is
                    \* itself a child of the container
  lastEvent,        \* single mode: the callback the transition called last, "exit" for
                    \* onExit and "enter" for onEnter, "none" before the first call
  animationDelay,   \* AnimeGroup: props.animation.delay ?? 0 in ms, FunctionDelay when it
                    \* is not a number
  faulty            \* the engine: elements on which animejsAnimate throws when it is
                    \* given exit parameters

presenceVars == <<mode, hasPresence, initialProp, exitBeforeEnter, mount, exitRegistry,
                  exitingElements, currentlyExiting, prev, returned, next, isExiting,
                  listeners, ctl, handles, conts, children, records, declared, nextEl,
                  inTask, doneCalls, playCalls, observed, threw, groupExit, groupInitial,
                  initializedChildren, exitingChildren, animations, cancelCalls, moves,
                  apiOf, calls, parentOf, lastEvent, animationDelay, faulty>>

\* The world: the current values of the presence family's variables.
Cur ==
  [mode |-> mode, hasPresence |-> hasPresence, initialProp |-> initialProp,
   exitBeforeEnter |-> exitBeforeEnter, mount |-> mount, exitRegistry |-> exitRegistry,
   exitingElements |-> exitingElements, currentlyExiting |-> currentlyExiting,
   prev |-> prev, returned |-> returned, next |-> next, isExiting |-> isExiting,
   listeners |-> listeners, ctl |-> ctl, handles |-> handles, conts |-> conts,
   children |-> children, records |-> records, declared |-> declared, nextEl |-> nextEl,
   inTask |-> inTask, doneCalls |-> doneCalls, playCalls |-> playCalls,
   observed |-> observed, threw |-> threw, groupExit |-> groupExit,
   groupInitial |-> groupInitial, initializedChildren |-> initializedChildren,
   exitingChildren |-> exitingChildren, animations |-> animations,
   cancelCalls |-> cancelCalls, moves |-> moves, apiOf |-> apiOf, calls |-> calls,
   parentOf |-> parentOf, lastEvent |-> lastEvent, animationDelay |-> animationDelay,
   faulty |-> faulty]

\* The step that leaves the world w.
Commit(w) ==
  /\ mode' = w.mode
  /\ hasPresence' = w.hasPresence
  /\ initialProp' = w.initialProp
  /\ exitBeforeEnter' = w.exitBeforeEnter
  /\ mount' = w.mount
  /\ exitRegistry' = w.exitRegistry
  /\ exitingElements' = w.exitingElements
  /\ currentlyExiting' = w.currentlyExiting
  /\ prev' = w.prev
  /\ returned' = w.returned
  /\ next' = w.next
  /\ isExiting' = w.isExiting
  /\ listeners' = w.listeners
  /\ ctl' = w.ctl
  /\ handles' = w.handles
  /\ conts' = w.conts
  /\ children' = w.children
  /\ records' = w.records
  /\ declared' = w.declared
  /\ nextEl' = w.nextEl
  /\ inTask' = w.inTask
  /\ doneCalls' = w.doneCalls
  /\ playCalls' = w.playCalls
  /\ observed' = w.observed
  /\ threw' = w.threw
  /\ groupExit' = w.groupExit
  /\ groupInitial' = w.groupInitial
  /\ initializedChildren' = w.initializedChildren
  /\ exitingChildren' = w.exitingChildren
  /\ animations' = w.animations
  /\ cancelCalls' = w.cancelCalls
  /\ moves' = w.moves
  /\ apiOf' = w.apiOf
  /\ calls' = w.calls
  /\ parentOf' = w.parentOf
  /\ lastEvent' = w.lastEvent
  /\ animationDelay' = w.animationDelay
  /\ faulty' = w.faulty

\* The closure variables of Anime(props) before its effects have run. animate
\* stands for local.animate ?? local.animation being given, and changes
\* counts the changes of that value since the controller was created.
NewController(hasInitial, hasAnimate, hasExit) ==
  [created |-> TRUE, alive |-> TRUE,
   initial |-> hasInitial, animate |-> hasAnimate, exit |-> hasExit,
   hasInitialized |-> FALSE, currentAnimation |-> None,
   exitAnimation |-> None, exitAnimationResolve |-> FALSE,
   promise |-> "none", resolveCalls |-> 0, completeEvents |-> 0, changes |-> 0]

NoController ==
  [created |-> FALSE, alive |-> FALSE,
   initial |-> FALSE, animate |-> FALSE, exit |-> FALSE,
   hasInitialized |-> FALSE, currentAnimation |-> None,
   exitAnimation |-> None, exitAnimationResolve |-> FALSE,
   promise |-> "none", resolveCalls |-> 0, completeEvents |-> 0, changes |-> 0]

\* animejsAnimate(element, params): a new handle, the last of w.handles. A
\* duration-0 application of initial has nothing left to run.
animejsAnimate(w, e, kind) ==
  [w EXCEPT !.handles = Append(@, [el |-> e, kind |-> kind,
                                   st |-> IF kind = "initial" THEN "completed" ELSE "running"])]

\* JSAnimation.pause() on handle h (a no-op on undefined and on a finished handle).
pause(w, h) ==
  IF h = None THEN w
  ELSE [w EXCEPT !.handles[h].st = IF @ = "running" THEN "paused" ELSE @]

\* resolve() of the promise playExitAnimation returned: the first call settles
\* it and queues the caller's .then continuation.
resolve(w, e) ==
  [w EXCEPT !.ctl[e].resolveCalls = @ + 1,
            !.ctl[e].promise = "resolved",
            !.conts = IF w.ctl[e].promise = "pending" THEN @ \cup {e} ELSE @]

\* A slip: the cancellation pauses the exit but leaves its promise pending.
cancelExitAnimationNoResolve(w, e) ==
  IF w.ctl[e].exitAnimation = None THEN w
  ELSE [pause(w, w.ctl[e].exitAnimation) EXCEPT !.ctl[e].exitAnimation = None]

\* A slip: the cancellation keeps the handle and the resolver it used.
cancelExitAnimationKeepsHandle(w, e) ==
  IF w.ctl[e].exitAnimation = None THEN w
  ELSE LET w1 == pause(w, w.ctl[e].exitAnimation)
       IN  IF w1.ctl[e].exitAnimationResolve THEN resolve(w1, e) ELSE w1

\* Anime.cancelExitAnimation.
cancelExitAnimation(w, e) ==
  IF w.ctl[e].exitAnimation = None THEN w
  ELSE LET w1 == pause(w, w.ctl[e].exitAnimation)
           w2 == [w1 EXCEPT !.ctl[e].exitAnimation = None]
       IN  IF w2.ctl[e].exitAnimationResolve
           THEN [resolve(w2, e) EXCEPT !.ctl[e].exitAnimationResolve = FALSE]
           ELSE w2

\* A slip: the exit is started while the enter animation keeps running.
playExitAnimationKeepsEnter(w, e) ==
  LET w0 == [w EXCEPT !.playCalls[e] = @ + 1]
  IN  IF ~w0.ctl[e].exit
      THEN [w0 EXCEPT !.ctl[e].promise = "resolved", !.conts = @ \cup {e}]
      ELSE LET w2 == animejsAnimate(w0, e, "exit")
           IN  [w2 EXCEPT !.ctl[e].exitAnimation = Len(w2.handles),
                          !.ctl[e].promise = "pending",
                          !.ctl[e].exitAnimationResolve = TRUE]

\* A slip: an exit the engine refuses to start counts as finished.
playExitAnimationResolvesOnThrow(w, e) ==
  LET w0 == [w EXCEPT !.playCalls[e] = @ + 1]
  IN  IF ~w0.ctl[e].exit
      THEN [w0 EXCEPT !.ctl[e].promise = "resolved", !.conts = @ \cup {e}]
      ELSE LET w1 == [pause(w0, w0.ctl[e].currentAnimation)
                        EXCEPT !.ctl[e].currentAnimation = None]
               w2 == animejsAnimate(w1, e, "exit")
           IN  IF e \in w.faulty
               THEN [w1 EXCEPT !.ctl[e].promise = "resolved", !.conts = @ \cup {e}]
               ELSE [w2 EXCEPT !.ctl[e].exitAnimation = Len(w2.handles),
                               !.ctl[e].promise = "pending",
                               !.ctl[e].exitAnimationResolve = TRUE]

\* Anime.playExitAnimation up to its return: the enter handle is paused and
\* dropped, the exit handle started, the promise pending with its resolver
\* kept. Without local.exit the async function returns at once, which
\* resolves its promise. When animejsAnimate throws, the async function
\* ends there and its promise is rejected: no handle, no resolver, and no
\* then continuation of the caller. (The element reference is set as soon
\* as the controller has rendered, which precedes every call.)
playExitAnimation(w, e) ==
  LET w0 == [w EXCEPT !.playCalls[e] = @ + 1]
  IN  IF ~w0.ctl[e].exit
      THEN [w0 EXCEPT !.ctl[e].promise = "resolved", !.conts = @ \cup {e}]
      ELSE LET w1 == [pause(w0, w0.ctl[e].currentAnimation)
                        EXCEPT !.ctl[e].currentAnimation = None]
               w2 == animejsAnimate(w1, e, "exit")
           IN  IF e \in w.faulty
               THEN [w1 EXCEPT !.ctl[e].promise = "rejected"]
               ELSE [w2 EXCEPT !.ctl[e].exitAnimation = Len(w2.handles),
                               !.ctl[e].promise = "pending",
                               !.ctl[e].exitAnimationResolve = TRUE]

\* A slip: the new animation is started without retiring the previous one.
applyAnimationNoPause(w, e) ==
  LET w2 == animejsAnimate(w, e, "enter")
  IN  [w2 EXCEPT !.ctl[e].currentAnimation = Len(w2.handles)]

\* Anime.applyAnimation(params): retire the previous handle, start a new one.
applyAnimation(w, e) ==
  LET w1 == [pause(w, w.ctl[e].currentAnimation) EXCEPT !.ctl[e].currentAnimation = None]
      w2 == animejsAnimate(w1, e, "enter")
  IN  [w2 EXCEPT !.ctl[e].currentAnimation = Len(w2.handles)]

\* Anime.applyInitialState(params): animejsAnimate with duration 0.
applyInitialState(w, e) == animejsAnimate(w, e, "initial")

\* A slip: a register for an element that has an entry keeps the old one.
registerFirstWins(w, element, api) ==
  IF element \in w.exitRegistry THEN w
  ELSE [w EXCEPT !.exitRegistry = @ \cup {element}, !.apiOf[element] = api]

\* state.register(element, api): exitRegistry.set(element, api).
register(w, element, api) ==
  [w EXCEPT !.exitRegistry = @ \cup {element}, !.apiOf[element] = api]

\* state.unregister(element): exitRegistry.delete(element).
unregister(w, element) ==
  [w EXCEPT !.exitRegistry = @ \ {element}]

\* exitRegistry.get(element): None when the element has no entry.
registryGet(w, element) ==
  IF element \in w.exitRegistry THEN w.apiOf[element] ELSE None

\* The effect that registers the controller with the presence context:
\* the descriptor of the controller of e is identified by e.
RegisterEffect(w, e) ==
  IF w.hasPresence /\ w.ctl[e].exit
  THEN register(w, e, e)
  ELSE w

\* A slip: the mount effect does not wait for the mount signal.
MountEffectUngated(w, e) ==
  IF w.ctl[e].hasInitialized THEN w
  ELSE LET w1 == IF w.ctl[e].initial THEN applyInitialState(w, e) ELSE w
           w2 == IF w1.ctl[e].animate THEN applyAnimation(w1, e) ELSE w1
       IN  [w2 EXCEPT !.ctl[e].hasInitialized = TRUE]

\* A slip: the mount effect waits while the gate is open.
MountEffectGateInverted(w, e) ==
  IF w.hasPresence /\ w.mount THEN w
  ELSE IF w.ctl[e].hasInitialized THEN w
  ELSE LET w1 == IF w.ctl[e].initial THEN applyInitialState(w, e) ELSE w
           w2 == IF w1.ctl[e].animate THEN applyAnimation(w1, e) ELSE w1
       IN  [w2 EXCEPT !.ctl[e].hasInitialized = TRUE]

\* The effect "Handle initial state and mounting animation".
MountEffect(w, e) ==
  IF w.hasPresence /\ ~w.mount THEN w
  ELSE IF w.ctl[e].hasInitialized THEN w
  ELSE LET w1 == IF w.ctl[e].initial THEN applyInitialState(w, e) ELSE w
           w2 == IF w1.ctl[e].animate THEN applyAnimation(w1, e) ELSE w1
       IN  [w2 EXCEPT !.ctl[e].hasInitialized = TRUE]

\* The effect "Handle reactive animation updates".
UpdateEffect(w, e) ==
  IF ~w.ctl[e].hasInitialized \/ ~w.ctl[e].animate THEN w
  ELSE applyAnimation(w, e)

\* The first run of the controller's effects, in creation order.
RunEffects(w, e) == UpdateEffect(MountEffect(RegisterEffect(w, e), e), e)

\* A slip: the cleanup unregisters whatever the controller has.
CleanupUnregistersAlways(w, e) ==
  LET w1 == IF w.hasPresence THEN unregister(w, e) ELSE w
      w2 == pause(w1, w1.ctl[e].currentAnimation)
  IN  [w2 EXCEPT !.ctl[e].currentAnimation = None, !.ctl[e].alive = FALSE]

\* The controller's two onCleanup callbacks, run when its owner is disposed.
Cleanup(w, e) ==
  LET w1 == IF w.hasPresence /\ ~w.ctl[e].exit
            THEN unregister(w, e)
            ELSE w
      w2 == pause(w1, w1.ctl[e].currentAnimation)
  IN  [w2 EXCEPT !.ctl[e].currentAnimation = None, !.ctl[e].alive = FALSE]

\* The mount effects of the live controllers run again after the mount
\* signal was written (a run that finds the gate closed, or the controller
\* initialized, changes nothing).
RerunMountEffects(w) ==
  LET live == {e \in Els : w.ctl[e].alive}
      F[S \in SUBSET live] ==
        IF S = {} THEN w
        ELSE LET e == CHOOSE x \in S : \A y \in S : x <= y
             IN  MountEffect(F[S \ {e}], e)
  IN  F[live]

(***************************************************************************)
(* Part 3. AnimePresence, single-child mode: createSwitchTransition with   *)
(* the onExit and onEnter callbacks AnimePresence passes to it.            *)
(*                                                                         *)
(* createSwitchTransition(source, {appear, mode, onEnter, onExit}) keeps   *)
(* returned, next and isExiting; on a change of source it runs             *)
(*   out-in:    isExiting || exitTransition(prev, enterTransition)         *)
(*   parallel:  exitTransition(prev); enterTransition()                    *)
(* where exitTransition(el, after) calls onExit(el, done) and done removes *)
(* el from returned and runs after, and enterTransition puts next in front *)
(* of returned and calls onEnter.                                          *)
(***************************************************************************)

\* A slip: onEnter without the cancellation of the element still exiting.
onEnterNoCancel(w, el) == [w EXCEPT !.mount = TRUE, !.lastEvent = "enter"]

\* The batch of the done callback exitTransition hands to onExit, before
\* its after runs: isExiting = false; returned without el.
doneBatch(w, el) ==
  [w EXCEPT !.doneCalls[el] = @ + 1,
            !.isExiting = FALSE,
            !.returned = Without(@, el)]

\* A slip: onEnter cancels the exit but leaves the registry entry.
onEnterKeepsEntry(w, el) ==
  LET x  == w.currentlyExiting
      w1 == IF ~w.exitBeforeEnter /\ x # None
            THEN LET a == [cancelExitAnimation(w, x) EXCEPT !.cancelCalls[x] = @ + 1]
                     c == doneBatch(a, x)
                 IN  [c EXCEPT !.currentlyExiting = None]
            ELSE w
  IN  [w1 EXCEPT !.mount = TRUE, !.lastEvent = "enter"]

\* A slip: onEnter cancels the stored exit under either policy.
onEnterCancelsAlways(w, el) ==
  LET x  == w.currentlyExiting
      w1 == IF x # None
            THEN LET a == [cancelExitAnimation(w, x) EXCEPT !.cancelCalls[x] = @ + 1]
                     b == [a EXCEPT !.exitRegistry = @ \ {x}]
                     c == doneBatch(b, x)
                 IN  [c EXCEPT !.currentlyExiting = None]
            ELSE w
  IN  [w1 EXCEPT !.mount = TRUE, !.lastEvent = "enter"]

\* AnimePresence onEnter(_, done). exitDone is the done callback onExit
\* stored; the branch runs in parallel mode only, where exitTransition was
\* called without after. onEnter's own done is enterTransition's noop.
onEnter(w, el) ==
  LET x  == w.currentlyExiting
      w1 == IF ~w.exitBeforeEnter /\ x # None
            THEN LET a == [cancelExitAnimation(w, x) EXCEPT !.cancelCalls[x] = @ + 1]
                     b == [a EXCEPT !.exitRegistry = @ \ {x}]
                     c == doneBatch(b, x)
                 IN  [c EXCEPT !.currentlyExiting = None]
            ELSE w
  IN  [w1 EXCEPT !.mount = TRUE, !.lastEvent = "enter"]

\* createSwitchTransition.enterTransition(after) with after undefined.
enterTransition(w) ==
  LET el == w.next
  IN  IF el = None THEN w
      ELSE onEnter([w EXCEPT !.next = None, !.returned = <<el>> \o @], el)

\* after of exitTransition: enterTransition in out-in mode, none in parallel.
After(w) == IF w.exitBeforeEnter THEN enterTransition(w) ELSE w

\* The done callback exitTransition hands to onExit.
Done(w, el) == After(doneBatch(w, el))

\* A slip: the listener leaves currentlyExiting as it is.
AnimeCompleteListenerKeepsExiting(w, el) == Done([w EXCEPT !.listeners = @ \ {el}], el)

\* The once-listener onExit adds for "animecomplete".
AnimeCompleteListener(w, el) ==
  LET w1 == Done([w EXCEPT !.listeners = @ \ {el}], el)
  IN  IF w1.currentlyExiting = el THEN [w1 EXCEPT !.currentlyExiting = None] ELSE w1

\* element.dispatchEvent(new Event("animecomplete")).
dispatchAnimeComplete(w, e) ==
  LET w1 == [w EXCEPT !.ctl[e].completeEvents = @ + 1]
  IN  IF e \in w1.listeners THEN AnimeCompleteListener(w1, e) ELSE w1

\* A slip: the completion resolves the promise without dispatching the event.
ExitAnimationThenNoEvent(w, e) ==
  LET w1 == [w EXCEPT !.ctl[e].exitAnimation = None, !.ctl[e].exitAnimationResolve = FALSE]
  IN  resolve(w1, e)

\* A slip: the completion leaves the exit handle and the resolver in place.
ExitAnimationThenKeepsHandle(w, e) == resolve(dispatchAnimeComplete(w, e), e)

\* The callback playExitAnimation passes to exitAnimation.then: it runs
\* when the engine completes the exit handle.
ExitAnimationThen(w, e) ==
  LET w1 == [w EXCEPT !.ctl[e].exitAnimation = None, !.ctl[e].exitAnimationResolve = FALSE]
  IN  resolve(dispatchAnimeComplete(w1, e), e)

\* A slip: onExit closes the gate only for an element with an exit descriptor.
onExitGateOnlyWithExit(w, el) ==
  LET w0 == [w EXCEPT !.lastEvent = "exit"]
  IN  IF el \in w0.exitRegistry /\ w0.ctl[el].exit
      THEN playExitAnimation([w0 EXCEPT !.mount = FALSE, !.currentlyExiting = el,
                                        !.listeners = @ \cup {el}], el)
      ELSE Done(w0, el)

\* AnimePresence onExit(el, done).
onExit(w, el) ==
  LET w1 == [w EXCEPT !.mount = FALSE, !.lastEvent = "exit"]
  IN  IF el \in w1.exitRegistry /\ w1.ctl[el].exit
      THEN playExitAnimation([w1 EXCEPT !.currentlyExiting = el,
                                        !.listeners = @ \cup {el}], el)
      ELSE Done(w1, el)

\* createSwitchTransition.exitTransition(el, after).
exitTransition(w, el) ==
  IF el = None THEN After(w)
  ELSE onExit([w EXCEPT !.isExiting = TRUE], el)

\* A slip: the out-in transition starts an exit while one is in progress.
triggerTransitionsIgnoresExiting(w, p) ==
  IF w.exitBeforeEnter
  THEN exitTransition(w, p)
  ELSE enterTransition(exitTransition(w, p))

\* createSwitchTransition.triggerTransitions(prev) for mode
\* props.exitBeforeEnter ? "out-in" : "parallel".
triggerTransitions(w, p) ==
  IF w.exitBeforeEnter
  THEN IF w.isExiting THEN w ELSE exitTransition(w, p)
  ELSE enterTransition(exitTransition(w, p))

\* The computed of createSwitchTransition, run with the new source el.
SourceComputed(w, el) ==
  IF el # w.prev
  THEN [triggerTransitions([w EXCEPT !.next = el], w.prev) EXCEPT !.prev = el]
  ELSE w

\* The presence family before anything was rendered: the closure state of
\* AnimePresence(props) (mount is createSignal(true)).
BlankWorld(m, hp, ip, ebe) ==
  [mode |-> m, hasPresence |-> hp, initialProp |-> ip, exitBeforeEnter |-> ebe,
   mount |-> TRUE, exitRegistry |-> {}, exitingElements |-> {},
   currentlyExiting |-> None, prev |-> None, returned |-> <<>>, next |-> None,
   isExiting |-> FALSE, listeners |-> {}, ctl |-> [e \in Els |-> NoController],
   handles |-> <<>>, conts |-> {}, children |-> <<>>, records |-> <<>>,
   declared |-> {}, nextEl |-> 1, inTask |-> FALSE,
   doneCalls |-> [e \in Els |-> 0], playCalls |-> [e \in Els |-> 0],
   observed |-> {}, threw |-> 0, groupExit |-> FALSE, groupInitial |-> FALSE,
   initializedChildren |-> {}, exitingChildren |-> {}, animations |-> <<>>,
   cancelCalls |-> [e \in Els |-> 0], moves |-> 0,
   apiOf |-> [e \in Els |-> None], calls |-> <<>>,
   parentOf |-> [e \in Els |-> None], lastEvent |-> "none", animationDelay |-> 0,
   faulty |-> {}]

\* The variables of the stagger plan while another state machine runs.
StaggerIdle ==
  /\ stagger = NoStagger
  /\ direction = "forward"
  /\ total = 0
  /\ delays = <<>>

\* The presence family starts in the world w.
StartIn(w) ==
  /\ mode = w.mode /\ hasPresence = w.hasPresence /\ initialProp = w.initialProp
  /\ exitBeforeEnter = w.exitBeforeEnter /\ mount = w.mount
  /\ exitRegistry = w.exitRegistry /\ exitingElements = w.exitingElements
  /\ currentlyExiting = w.currentlyExiting /\ prev = w.prev
  /\ returned = w.returned /\ next = w.next /\ isExiting = w.isExiting
  /\ listeners = w.listeners /\ ctl = w.ctl /\ handles = w.handles
  /\ conts = w.conts /\ children = w.children /\ records = w.records
  /\ declared = w.declared /\ nextEl = w.nextEl /\ inTask = w.inTask
  /\ doneCalls = w.doneCalls /\ playCalls = w.playCalls
  /\ observed = w.observed /\ threw = w.threw
  /\ groupExit = w.groupExit /\ groupInitial = w.groupInitial
  /\ initializedChildren = w.initializedChildren
  /\ exitingChildren = w.exitingChildren /\ animations = w.animations
  /\ cancelCalls = w.cancelCalls /\ moves = w.moves
  /\ apiOf = w.apiOf /\ calls = w.calls /\ parentOf = w.parentOf
  /\ lastEvent = w.lastEvent /\ animationDelay = w.animationDelay
  /\ faulty = w.faulty

\* A new Anime child: its component function has run and rendered its
\* element; its effects are not run yet.
CreateChild(w, hasInitial, hasAnimate, hasExit) ==
  [w EXCEPT !.ctl[w.nextEl] = NewController(hasInitial, hasAnimate, hasExit),
            !.nextEl = @ + 1]

\* AnimePresence(props) in single mode, rendered with or without a first
\* child: createSwitchTransition starts with returned = appear ? [] :
\* [initSource] and runs its computed once with prev = appear ? undefined :
\* initSource; then the child's effects run.
ConstructSingle(ip, ebe, withChild, childExit) ==
  LET w0 == BlankWorld("single", TRUE, ip, ebe)
  IN  IF ~withChild THEN w0
      ELSE LET w1 == CreateChild(w0, TRUE, TRUE, childExit)
               w2 == IF ip THEN w1 ELSE [w1 EXCEPT !.returned = <<1>>, !.prev = 1]
           IN  RunEffects(SourceComputed(w2, 1), 1)

InitSingle ==
  /\ \E ip \in BOOLEAN, ebe \in BOOLEAN, withChild \in BOOLEAN, childExit \in BOOLEAN :
       StartIn(ConstructSingle(ip, ebe, withChild, childExit))
  /\ StaggerIdle

\* The declared child changes from w.prev to a new child, or to none,
\* within one reactive update: the old child's owner is disposed, the new
\* child's component is created, the computed of createSwitchTransition
\* runs, and then the new child's effects run.
SetSource(w, newChild, childExit) ==
  LET old == w.prev
      w1  == IF old # None THEN Cleanup(w, old) ELSE w
      el  == IF newChild THEN w1.nextEl ELSE None
      w2  == IF newChild THEN CreateChild(w1, TRUE, TRUE, childExit) ELSE w1
      w3  == SourceComputed(w2, el)
      w4  == IF newChild THEN RunEffects(w3, el) ELSE w3
  IN  [w4 EXCEPT !.inTask = TRUE]

\* A task may change the declared tree when the microtasks of the previous
\* task have run.
CanRunTask == inTask \/ (conts = {} /\ records = <<>>)

\* A child is declared where there was none.
Declare(childExit) ==
  /\ mode = "single" /\ CanRunTask
  /\ prev = None /\ nextEl <= MaxEl
  /\ Commit(SetSource(Cur, TRUE, childExit))
  /\ UNCHANGED staggerVars

\* The declared child is withdrawn, with no replacement.
Withdraw ==
  /\ mode = "single" /\ CanRunTask
  /\ prev # None
  /\ Commit(SetSource(Cur, FALSE, FALSE))
  /\ UNCHANGED staggerVars

\* The declared child is withdrawn and another declared in the same tick.
Swap(childExit) ==
  /\ mode = "single" /\ CanRunTask
  /\ prev # None /\ nextEl <= MaxEl
  /\ Commit(SetSource(Cur, TRUE, childExit))
  /\ UNCHANGED staggerVars

\* The engine completes the exit animation of e: the then callback of
\* playExitAnimation runs, and after it the effects that read mount.
ExitComplete(e) ==
  /\ mode = "single" /\ conts = {} /\ records = <<>>
  /\ ctl[e].exitAnimation # None
  /\ handles[ctl[e].exitAnimation].st = "running"
  /\ LET w1 == [Cur EXCEPT !.handles[ctl[e].exitAnimation].st = "completed",
                           !.inTask = FALSE]
     IN  Commit(RerunMountEffects(ExitAnimationThen(w1, e)))
  /\ UNCHANGED staggerVars

\* The engine completes an enter animation.
EnterComplete(h) ==
  /\ conts = {} /\ records = <<>>
  /\ handles[h].kind = "enter" /\ handles[h].st = "running"
  /\ Commit([Cur EXCEPT !.handles[h].st = "completed", !.inTask = FALSE])
  /\ UNCHANGED staggerVars

\* The continuation onExit attaches to playExitAnimation() runs.
SingleContinuation(e) ==
  /\ mode = "single" /\ e \in conts
  /\ Commit([Cur EXCEPT !.exitRegistry = @ \ {e}, !.conts = @ \ {e}, !.inTask = FALSE])
  /\ UNCHANGED staggerVars

NextSingle ==
  \/ \E x \in BOOLEAN : Declare(x)
  \/ Withdraw
  \/ \E x \in BOOLEAN : Swap(x)
  \/ \E e \in Els : ExitComplete(e)
  \/ \E h \in 1..Len(handles) : EnterComplete(h)
  \/ \E e \in Els : SingleContinuation(e)

vars == <<staggerVars, presenceVars>>

SpecSingle == InitSingle /\ [][NextSingle]_vars

(***************************************************************************)
(* Properties of the single-child mode.                                    *)
(***************************************************************************)

Rendered == SeqToSet(returned)

HandlesIn(hs, e, kind) == {h \in 1..Len(hs) : hs[h].el = e /\ hs[h].kind = kind}

HandlesOf(e, kind) == HandlesIn(handles, e, kind)

\* The exit of e was cancelled: only cancelExitAnimation pauses an exit handle.
ExitCancelled(e) == \E h \in HandlesOf(e, "exit") : handles[h].st = "paused"

\* The exit animation of e ran to its end.
ExitCompleted(e) == \E h \in HandlesOf(e, "exit") : handles[h].st = "completed"

\* C2: under exitBeforeEnter at most one child is rendered at any time, and
\* a child is rendered or has its initial state or enter animation applied
\* only when every child declared before it is gone from the rendered list
\* and, if its exit animation was played, that animation has completed and
\* its done callback has been called.
C2_EnterOnlyAfterExitFinalized ==
  exitBeforeEnter =>
    /\ Len(returned) <= 1
    /\ \A b \in Els :
         (b \in Rendered \/ HandlesOf(b, "enter") # {} \/ HandlesOf(b, "initial") # {})
         => \A a \in 1..(b - 1) :
              /\ a \notin Rendered
              /\ playCalls[a] > 0 =>
                   /\ ExitCompleted(a)
                   /\ ctl[a].completeEvents = 1
                   /\ doneCalls[a] = 1

\* C2 witness: child 1 played its exit to the end and was finalized, and
\* child 2, declared while 1 was still rendered, is rendered and entering,
\* its enter handle started after the exit handle of 1.
C2_Witness ==
  /\ exitBeforeEnter
  /\ playCalls[1] = 1 /\ ExitCompleted(1) /\ doneCalls[1] = 1
  /\ returned = <<2>>
  /\ \E h \in HandlesOf(2, "enter") : \A x \in HandlesOf(1, "exit") : x < h

\* A step in which, in parallel mode, the rendered child A = prev, which
\* has a registered exit animation, is withdrawn and B = prev' is declared.
ParallelSwapStep ==
  /\ mode = "single" /\ ~exitBeforeEnter
  /\ prev # None /\ prev' # None /\ prev' # prev
  /\ prev \in exitRegistry /\ prev \in Rendered

C10_Original ==
  ~initialProp => HandlesOf(1, "enter") = {}

(***************************************************************************)
(* The stagger plan: animateChildSet computes one delay per child of the   *)
(* set it animates.                                                        *)
(***************************************************************************)

\* Nothing is rendered under a presence boundary.
PresenceIdle == StartIn(BlankWorld("none", FALSE, TRUE, FALSE))

InitStagger ==
  /\ stagger \in NumericStaggers \cup FunctionStaggers \cup {NoStagger}
  /\ direction \in Directions
  /\ total \in 1..MaxN
  /\ delays = <<>>
  /\ PresenceIdle

\* One iteration of children.forEach in animateChildSet: the delay of the
\* next child (index = Len(delays)).
StaggerChild ==
  /\ Len(delays) < total
  /\ delays' = Append(delays, calculateStaggerDelay(stagger, direction, Len(delays), total))
  /\ UNCHANGED <<stagger, direction, total>>
  /\ UNCHANGED presenceVars

NextStagger == StaggerChild

SpecStagger == InitStagger /\ [][NextStagger]_vars

\* The position the direction assigns to child i of n.
DirectedIndex(dir, i, n) ==
  IF dir = "reverse" THEN n - 1 - i
  ELSE IF dir = "center" THEN Abs((n \div 2) - i)
  ELSE i

\* C7: with a numeric stagger d the delay of child i of N is d*i under
\* forward, d*(N-1-i) under reverse and d*|floor(N/2)-i| under center; the
\* stated examples come out as stated (N=5, d=10, center: 20,10,0,10,20;
\* N=3, d=100: 0,100,200 forward and 200,100,0 reverse), and for even N the
\* center index is N/2.
C7_NumericStaggerDelays ==
  stagger.kind = "number" =>
    /\ \A k \in 1..Len(delays) :
         delays[k] = stagger.ms * DirectedIndex(direction, k - 1, total)
    /\ (stagger.ms = 10 /\ total = 5 /\ direction = "center" /\ Len(delays) = 5)
         => delays = <<20, 10, 0, 10, 20>>
    /\ (stagger.ms = 100 /\ total = 3 /\ direction = "forward" /\ Len(delays) = 3)
         => delays = <<0, 100, 200>>
    /\ (stagger.ms = 100 /\ total = 3 /\ direction = "reverse" /\ Len(delays) = 3)
         => delays = <<200, 100, 0>>
    /\ (stagger.ms = 10 /\ total = 4 /\ direction = "center" /\ Len(delays) = 4)
         => delays = <<20, 10, 0, 10>>

\* C7 witness: five children, numeric stagger 10, center: all delays computed.
C7_Witness ==
  /\ stagger = [kind |-> "number", ms |-> 10]
  /\ total = 5 /\ direction = "center"
  /\ delays = <<20, 10, 0, 10, 20>>

\* C8 as stated: with a function stagger f the delay of child i of N is
\* f(i, N) under forward, f(N-1-i, N) under reverse and f(|floor(N/2)-i|, N)
\* under center.
C8_Original ==
  stagger.kind = "function" =>
    \A k \in 1..Len(delays) :
      delays[k] = StaggerFn(stagger.fn, DirectedIndex(direction, k - 1, total), total)

(***************************************************************************)
(* Part 4. The observed container: DOM operations on its child list. Each  *)
(* operation queues the MutationRecord the DOM standard prescribes:        *)
(* [add, rem, next] = addedNodes, removedNodes (one node at most, None     *)
(* when empty) and nextSibling.                                            *)
(***************************************************************************)

\* node.nextSibling within the container (None for the last child).
domNextSibling(w, n) ==
  LET i == IndexOf(w.children, n)
  IN  IF i = 0 \/ i = Len(w.children) THEN None ELSE w.children[i + 1]

\* node.remove() / parent.removeChild(node): nothing when node is detached.
domRemove(w, n) ==
  IF n \notin SeqToSet(w.children) THEN w
  ELSE [w EXCEPT !.records = Append(@, [add |-> None, rem |-> n, next |-> domNextSibling(w, n)]),
                 !.children = Without(@, n)]

\* parent.appendChild(node): an attached node is first removed.
domAppend(w, n) ==
  LET w1 == domRemove(w, n)
  IN  [w1 EXCEPT !.children = Append(@, n),
                 !.records = Append(@, [add |-> n, rem |-> None, next |-> None])]

\* parent.insertBefore(node, ref) for a child ref of parent other than node.
domInsertBefore(w, n, ref) ==
  LET w1 == domRemove(w, n)
  IN  [w1 EXCEPT !.children = InsertAt(@, IndexOf(@, ref), n),
                 !.records = Append(@, [add |-> n, rem |-> None, next |-> ref])]

\* The nodes a batch of records reports as removed.
RemovedIn(batch) == {batch[i].rem : i \in 1..Len(batch)} \ {None}

(***************************************************************************)
(* Part 5. AnimePresence, list mode.                                       *)
(***************************************************************************)

\* Largest number of children the list is constructed with.
MaxInitial == 2

\* AnimePresence.reinsertElement(element, target, nextSibling) on the
\* container; insertBefore throws NotFoundError when nextSibling is not a
\* child of target. [w, ok]: the world after the call and whether it returned.
reinsertElement(w, element, nextSibling) ==
  IF nextSibling # None
  THEN IF nextSibling \in SeqToSet(w.children)
       THEN [w |-> domInsertBefore(w, element, nextSibling), ok |-> TRUE]
       ELSE [w |-> w, ok |-> FALSE]
  ELSE [w |-> domAppend(w, element), ok |-> TRUE]

\* The one wrapper element of the nested case: a plain element of the
\* container whose children are elements of Anime controllers.
Wrapper == MaxEl + 1

\* Largest number of children the wrapper is rendered with.
MaxWrapped == 2

\* Array.from(element.children): the controllers' elements inside a node, in
\* document order. The element of an Anime controller has none.
elementChildren(w, node) ==
  LET F[i \in 0..MaxEl] ==
        IF i = 0 THEN <<>>
        ELSE IF w.parentOf[i] = node THEN Append(F[i - 1], i) ELSE F[i - 1]
  IN  F[MaxEl]

\* api?.exit && !exitingElements.has(el) for api = exitRegistry.get(el).
Interceptable(w, el) ==
  el \in Els /\ el \in w.exitRegistry /\ w.ctl[el].exit /\ el \notin w.exitingElements

\* The statements both branches of handleMutations share: mark el as
\* exiting, put the removed root back, play el's exit animation.
interceptRemoval(w, el, root, nextSibling) ==
  LET w1 == [w EXCEPT !.exitingElements = @ \cup {el}]
      p  == reinsertElement(w1, root, nextSibling)
  IN  IF p.ok THEN [w |-> playExitAnimation(p.w, el), ok |-> TRUE] ELSE p

\* The body of handleMutations' loop for one record: the removed root is
\* intercepted when it is registered; otherwise the loop over its direct
\* children intercepts the first registered one and breaks.
handleMutation(w, r) ==
  LET element == r.rem
      kids    == elementChildren(w, element)
      hits    == {i \in 1..Len(kids) : Interceptable(w, kids[i])}
  IN  IF element = None THEN [w |-> w, ok |-> TRUE]
      ELSE IF Interceptable(w, element)
      THEN interceptRemoval(w, element, element, r.next)
      ELSE IF hits = {} THEN [w |-> w, ok |-> TRUE]
      ELSE LET first == CHOOSE i \in hits : \A j \in hits : i <= j
           IN  interceptRemoval(w, kids[first], element, r.next)

\* AnimePresence.handleMutations(mutations): an exception ends the call.
handleMutations(w, batch) ==
  LET F[i \in 0..Len(batch)] ==
        IF i = 0 THEN [w |-> w, ok |-> TRUE]
        ELSE IF F[i - 1].ok THEN handleMutation(F[i - 1].w, batch[i]) ELSE F[i - 1]
  IN  F[Len(batch)]

\* A child rendered into the container before the observer is attached.
RenderListChild(w, childExit) ==
  LET e  == w.nextEl
      w1 == RunEffects(CreateChild(w, TRUE, TRUE, childExit), e)
  IN  [w1 EXCEPT !.children = Append(@, e), !.declared = @ \cup {e}]

\* AnimePresence(props) with mode = "list", rendered with k children.
ConstructList(ip, k, exits) ==
  LET F[i \in 0..k] ==
        IF i = 0 THEN BlankWorld("list", TRUE, ip, FALSE)
        ELSE RenderListChild(F[i - 1], exits[i])
  IN  F[k]

InitList ==
  /\ \E ip \in BOOLEAN, k \in 0..MaxInitial :
       \E exits \in [1..k -> BOOLEAN] : StartIn(ConstructList(ip, k, exits))
  /\ StaggerIdle

\* The declared list gains a child, rendered at the end of the container.
ListAdd(childExit) ==
  /\ mode = "list" /\ CanRunTask
  /\ nextEl <= MaxEl
  /\ LET e  == nextEl
         w1 == RunEffects(CreateChild(Cur, TRUE, TRUE, childExit), e)
         w2 == domAppend(w1, e)
     IN  Commit([w2 EXCEPT !.declared = @ \cup {e}, !.inTask = TRUE])
  /\ UNCHANGED staggerVars

\* The declared list loses the child e: its owner is disposed and its
\* element removed from the container.
ListRemove(e) ==
  /\ mode = "list" /\ CanRunTask
  /\ e \in declared
  /\ LET w1 == domRemove(Cleanup(Cur, e), e)
     IN  Commit([w1 EXCEPT !.declared = @ \ {e}, !.inTask = TRUE])
  /\ UNCHANGED staggerVars

\* The observer's callback runs with the queued records.
ListDeliver ==
  /\ mode = "list" /\ records # <<>>
  /\ LET w0 == [Cur EXCEPT !.records = <<>>, !.inTask = FALSE,
                           !.observed = @ \cup (RemovedIn(records) \cap Els)]
         p  == handleMutations(w0, records)
     IN  Commit(IF p.ok THEN p.w ELSE [p.w EXCEPT !.threw = @ + 1])
  /\ UNCHANGED staggerVars

\* The engine completes the exit animation of e (no boundary listens for
\* "animecomplete" outside single mode).
PlainExitComplete(e) ==
  /\ mode \in {"list", "api"} /\ conts = {} /\ records = <<>>
  /\ ctl[e].exitAnimation # None
  /\ handles[ctl[e].exitAnimation].st = "running"
  /\ LET w1 == [Cur EXCEPT !.handles[ctl[e].exitAnimation].st = "completed",
                           !.inTask = FALSE]
     IN  Commit(ExitAnimationThen(w1, e))
  /\ UNCHANGED staggerVars

\* The removed root a continuation of handleMutations holds for e: e
\* itself, or the wrapper around e.
RootOf(w, e) == IF w.parentOf[e] = None THEN e ELSE w.parentOf[e]

\* A slip: the continuation detaches the element but keeps its mark.
ListContinuationKeepsMark(e) ==
  /\ mode = "list" /\ e \in conts
  /\ LET w1 == [Cur EXCEPT !.exitRegistry = @ \ {e},
                           !.conts = @ \ {e}, !.inTask = FALSE]
     IN  Commit(domRemove(w1, RootOf(w1, e)))
  /\ UNCHANGED staggerVars

\* The continuation handleMutations attaches to playExitAnimation() runs.
ListContinuation(e) ==
  /\ mode = "list" /\ e \in conts
  /\ LET w1 == [Cur EXCEPT !.exitingElements = @ \ {e}, !.exitRegistry = @ \ {e},
                           !.conts = @ \ {e}, !.inTask = FALSE]
     IN  Commit(domRemove(w1, RootOf(w1, e)))
  /\ UNCHANGED staggerVars

NextList ==
  \/ \E x \in BOOLEAN : ListAdd(x)
  \/ \E e \in Els : ListRemove(e)
  \/ ListDeliver
  \/ \E e \in Els : PlainExitComplete(e)
  \/ \E e \in Els : ListContinuation(e)
  \/ \E h \in 1..Len(handles) : EnterComplete(h)

SpecList == InitList /\ [][NextList]_vars

(***************************************************************************)
(* The nested case of list mode: the container holds the wrapper, whose    *)
(* children are Anime controllers, and possibly one Anime child after it.  *)
(***************************************************************************)

\* An Anime child rendered inside the wrapper.
RenderWrappedChild(w, childExit) ==
  LET e  == w.nextEl
      w1 == RunEffects(CreateChild(w, TRUE, TRUE, childExit), e)
  IN  [w1 EXCEPT !.parentOf[e] = Wrapper]

\* AnimePresence(props) with mode = "list", rendered with the wrapper
\* around k Anime children, followed by an Anime child when withSibling.
ConstructNested(ip, k, exits, withSibling, siblingExit) ==
  LET F[i \in 0..k] ==
        IF i = 0 THEN BlankWorld("list", TRUE, ip, FALSE)
        ELSE RenderWrappedChild(F[i - 1], exits[i])
      w1 == [F[k] EXCEPT !.children = <<Wrapper>>, !.declared = {Wrapper}]
  IN  IF withSibling THEN RenderListChild(w1, siblingExit) ELSE w1

InitNested ==
  /\ \E ip \in BOOLEAN, k \in 1..MaxWrapped, withSibling \in BOOLEAN, siblingExit \in BOOLEAN :
       \E exits \in [1..k -> BOOLEAN] :
         StartIn(ConstructNested(ip, k, exits, withSibling, siblingExit))
  /\ StaggerIdle

\* The owners of the controllers inside node are disposed, in order.
CleanupWithin(w, node) ==
  LET kids == elementChildren(w, node)
      F[i \in 0..Len(kids)] == IF i = 0 THEN w ELSE Cleanup(F[i - 1], kids[i])
  IN  F[Len(kids)]

\* The declared list loses the wrapper: the owners of the controllers in it
\* are disposed and the wrapper is removed from the container, its children
\* still in it.
ListRemoveWrapper ==
  /\ mode = "list" /\ CanRunTask
  /\ Wrapper \in declared
  /\ LET w1 == domRemove(CleanupWithin(Cur, Wrapper), Wrapper)
     IN  Commit([w1 EXCEPT !.declared = @ \ {Wrapper}, !.inTask = TRUE])
  /\ UNCHANGED staggerVars

NextNested ==
  \/ NextList
  \/ ListRemoveWrapper

SpecNested == InitNested /\ [][NextNested]_vars

\* C1 as stated: in list mode every element registered with an exit
\* animation whose removal was handed to the observer has had
\* playExitAnimation called exactly once, and no element ever more than once.
C1_Original ==
  /\ \A e \in Els : playCalls[e] <= 1
  /\ \A e \in observed : ctl[e].exit => playCalls[e] = 1

(***************************************************************************)
(* Part 6. AnimeGroup: the container's children are plain elements; the    *)
(* group animates them on mount and from its MutationObserver.             *)
(***************************************************************************)

\* Largest number of children the group is mounted with.
MaxGroupInitial == 3

\* Elements the application may add after the mount.
MaxGroupEl == 3

\* Largest number of records the application's task leaves queued before
\* its next DOM operation starts.
MaxPending == 1

\* Largest number of reorderings the application makes.
MaxMoves == 1

\* A slip: the intercepted node is always put back at the end.
groupReinsertAtEnd(w, node, refNode) == domAppend(w, node)

\* The re-insertion of the observer's exit branch: at the recorded next
\* sibling when the container still holds it, else at the end.
groupReinsert(w, node, refNode) ==
  IF refNode # None /\ refNode \in SeqToSet(w.children)
  THEN domInsertBefore(w, node, refNode)
  ELSE domAppend(w, node)

\* props.animation.delay when it is a function of the target, not a number.
FunctionDelay == -1

\* AnimeGroup.animateChildSet(children): per child the initial state, the
\* enter animation with its stagger delay, and the bookkeeping.
animateChildSet(w, nodes) ==
  LET F[i \in 0..Len(nodes)] ==
        IF i = 0 THEN w
        ELSE LET child == nodes[i]
                 w1 == IF F[i - 1].groupInitial
                       THEN applyInitialState(F[i - 1], child) ELSE F[i - 1]
                 delay == calculateStaggerDelay(stagger, direction, i - 1, Len(nodes))
                 originalDelay == w.animationDelay
                 totalDelay == IF originalDelay # FunctionDelay
                               THEN originalDelay + delay ELSE delay
                 w2 == [w1 EXCEPT !.handles = Append(@, [el |-> child, kind |-> "enter",
                                                         st |-> "running",
                                                         delay |-> totalDelay])]
             IN  [w2 EXCEPT !.animations = Append(@, Len(w2.handles)),
                            !.initializedChildren = @ \cup {child}]
  IN  F[Len(nodes)]

\* AnimeGroup.animateChildren(): pause and drop the previous animations,
\* then animate every child of the container.
animateChildren(w) ==
  LET F[i \in 0..Len(w.animations)] ==
        IF i = 0 THEN w ELSE pause(F[i - 1], w.animations[i])
  IN  animateChildSet([F[Len(w.animations)] EXCEPT !.animations = <<>>], w.children)

\* A slip: the exit branch without the exitingChildren guard.
groupExitBranchUnguarded(w, node, refNode) ==
  LET w1 == [w EXCEPT !.exitingChildren = @ \cup {node}]
      w2 == groupReinsert(w1, node, refNode)
      w3 == animejsAnimate(w2, node, "exit")
  IN  [w3 EXCEPT !.animations = Append(@, Len(w3.handles))]

\* The exit branch of the observer's callback for one removed node.
groupExitBranch(w, node, refNode) ==
  IF node \in w.exitingChildren THEN w
  ELSE LET w1 == [w EXCEPT !.exitingChildren = @ \cup {node}]
           w2 == groupReinsert(w1, node, refNode)
           w3 == animejsAnimate(w2, node, "exit")
       IN  [w3 EXCEPT !.animations = Append(@, Len(w3.handles))]

\* A slip: the callback takes every added node for a new child.
childObserverUnfiltered(w, batch) ==
  LET F[i \in 0..Len(batch)] ==
        IF i = 0 THEN [w |-> w, newChildren |-> <<>>]
        ELSE LET p == F[i - 1]
                 r == batch[i]
                 nc == IF r.add # None
                       THEN Append(p.newChildren, r.add) ELSE p.newChildren
                 w1 == IF p.w.groupExit /\ r.rem # None
                       THEN groupExitBranch(p.w, r.rem, r.next) ELSE p.w
             IN  [w |-> w1, newChildren |-> nc]
      q == F[Len(batch)]
  IN  IF Len(q.newChildren) > 0 THEN animateChildSet(q.w, q.newChildren) ELSE q.w

\* The observer's callback: [w, newChildren] after the loop over the
\* records, then animateChildSet(newChildren) when there are any.
childObserver(w, batch) ==
  LET F[i \in 0..Len(batch)] ==
        IF i = 0 THEN [w |-> w, newChildren |-> <<>>]
        ELSE LET p == F[i - 1]
                 r == batch[i]
                 nc == IF r.add # None /\ r.add \notin p.w.initializedChildren
                          /\ r.add \notin p.w.exitingChildren
                       THEN Append(p.newChildren, r.add) ELSE p.newChildren
                 w1 == IF p.w.groupExit /\ r.rem # None
                       THEN groupExitBranch(p.w, r.rem, r.next) ELSE p.w
             IN  [w |-> w1, newChildren |-> nc]
      q == F[Len(batch)]
  IN  IF Len(q.newChildren) > 0 THEN animateChildSet(q.w, q.newChildren) ELSE q.w

\* AnimeGroup(props) mounted with k children: onMount runs animateChildren
\* and attaches the observer.
ConstructGroup(ge, gi, k, d) ==
  LET w0 == BlankWorld("group", FALSE, TRUE, FALSE)
      w1 == [w0 EXCEPT !.groupExit = ge, !.groupInitial = gi, !.animationDelay = d,
                       !.children = [i \in 1..k |-> i], !.declared = 1..k,
                       !.nextEl = k + 1]
  IN  animateChildren(w1)

InitGroup ==
  /\ stagger = NoStagger /\ direction = "forward"
  /\ total = 0 /\ delays = <<>>
  /\ \E ge \in BOOLEAN, gi \in BOOLEAN, k \in 0..MaxGroupInitial :
       StartIn(ConstructGroup(ge, gi, k, 0))

\* The application adds a child at the end of the container.
GroupAdd ==
  /\ mode = "group" /\ CanRunTask /\ Len(records) <= MaxPending
  /\ nextEl <= MaxGroupEl
  /\ LET w1 == domAppend(Cur, nextEl)
     IN  Commit([w1 EXCEPT !.declared = @ \cup {nextEl}, !.nextEl = @ + 1, !.inTask = TRUE])
  /\ UNCHANGED staggerVars

\* The application removes the child n.
GroupRemove(n) ==
  /\ mode = "group" /\ CanRunTask /\ Len(records) <= MaxPending
  /\ n \in declared
  /\ Commit([domRemove(Cur, n) EXCEPT !.declared = @ \ {n}, !.inTask = TRUE])
  /\ UNCHANGED staggerVars

\* The application reorders its children: n moves to the front.
GroupMove(n) ==
  /\ mode = "group" /\ CanRunTask /\ Len(records) <= MaxPending
  /\ moves < MaxMoves
  /\ n \in declared /\ n \in SeqToSet(children) /\ children[1] # n
  /\ Commit([domInsertBefore(Cur, n, children[1]) EXCEPT !.moves = @ + 1, !.inTask = TRUE])
  /\ UNCHANGED staggerVars

\* The observer's callback runs with the queued records.
GroupDeliver ==
  /\ mode = "group" /\ records # <<>>
  /\ Commit(childObserver([Cur EXCEPT !.records = <<>>, !.inTask = FALSE], records))
  /\ UNCHANGED staggerVars

\* The engine completes the exit animation h: onComplete removes the node.
GroupExitComplete(h) ==
  /\ mode = "group" /\ records = <<>>
  /\ handles[h].kind = "exit" /\ handles[h].st = "running"
  /\ Commit(domRemove([Cur EXCEPT !.handles[h].st = "completed", !.inTask = FALSE],
                      handles[h].el))
  /\ UNCHANGED staggerVars

NextGroup ==
  \/ GroupAdd
  \/ \E n \in 1..MaxGroupEl : GroupRemove(n)
  \/ \E n \in 1..MaxGroupEl : GroupMove(n)
  \/ GroupDeliver
  \/ \E h \in 1..Len(handles) : GroupExitComplete(h)

SpecGroup == InitGroup /\ [][NextGroup]_vars

\* A step of GroupDeliver whose batch is the removal of one child that had
\* a sibling on either side, by a group with an exit animation.
MiddleRemovalDelivered ==
  /\ mode = "group" /\ groupExit
  /\ Len(records) = 1 /\ ~inTask'
  /\ records[1].rem # None
  /\ records[1].rem \notin exitingChildren
  /\ records[1].rem \notin SeqToSet(children)
  /\ records[1].next \in SeqToSet(children)
  /\ IndexOf(children, records[1].next) > 1

\* A step in which the node n, removed by the application and re-inserted
\* with its exit animation running, leaves the container.
ExitingNodeDetached(n) ==
  /\ mode = "group"
  /\ n \notin declared
  /\ n \in SeqToSet(children)
  /\ \E h \in HandlesOf(n, "exit") : handles[h].st = "running"
  /\ n \notin SeqToSet(children')

\* C4: when the observer of a group with an exit animation is handed the
\* removal of a middle child, that callback puts the node back at its
\* original index (right before its recorded next sibling), starts exactly
\* one animation, the exit animation of that node, and leaves every other
\* child in place; and the node leaves the container only in the step in
\* which that exit animation completes, a step that moves or animates
\* nothing else.
C4_MiddleChildExit ==
  [][/\ MiddleRemovalDelivered =>
          /\ children' = InsertAt(children, IndexOf(children, records[1].next),
                                  records[1].rem)
          /\ handles' = Append(handles, [el |-> records[1].rem, kind |-> "exit",
                                         st |-> "running"])
          /\ exitingChildren' = exitingChildren \cup {records[1].rem}
     /\ \A n \in 1..MaxGroupEl :
          ExitingNodeDetached(n) =>
            /\ \E h \in HandlesOf(n, "exit") :
                 handles[h].st = "running" /\ handles'[h].st = "completed"
            /\ children' = Without(children, n)
            /\ Len(handles') = Len(handles)]_vars

\* C4 witness: of the three children the group was mounted with, the middle
\* one was removed and is back between the other two, its exit animation
\* running; nothing was added or reordered.
C4_Witness ==
  /\ mode = "group" /\ groupExit
  /\ nextEl = 4 /\ moves = 0
  /\ declared = {1, 3}
  /\ children = <<1, 2, 3>>
  /\ records = <<>>
  /\ \E h \in HandlesOf(2, "exit") : handles[h].st = "running"
  /\ Cardinality({h \in 1..Len(handles) : handles[h].kind = "exit"}) = 1

\* C9 as stated: on every element the zero-duration application of initial
\* precedes the first enter animation and none follows an enter animation;
\* an element of a group with initial configured has it applied before it
\* is animated.
C9_Original ==
  /\ \A i \in 1..Len(handles), j \in 1..Len(handles) :
       (handles[i].kind = "initial" /\ handles[j].kind = "enter"
        /\ handles[i].el = handles[j].el) => i < j
  /\ \A j \in 1..Len(handles) :
       (mode = "group" /\ groupInitial /\ handles[j].kind = "enter")
       => HandlesOf(handles[j].el, "initial") # {}

(***************************************************************************)
(* Part 7. The presence API of the controllers, called directly: what a    *)
(* holder of the registered {exit, playExitAnimation, cancelExitAnimation} *)
(* object can do with it.                                                  *)
(***************************************************************************)

\* Largest number of cancelExitAnimation calls on one controller.
MaxCancel == 2

\* Controllers rendered under a boundary; each registers its API because it
\* has an exit animation.
ConstructControllers(hasAnimate) ==
  LET F[i \in 0..MaxEl] ==
        IF i = 0 THEN BlankWorld("api", TRUE, TRUE, FALSE)
        ELSE RunEffects(CreateChild(F[i - 1], TRUE, hasAnimate, TRUE), i)
  IN  F[MaxEl]

InitApi ==
  /\ \E hasAnimate \in BOOLEAN : StartIn(ConstructControllers(hasAnimate))
  /\ StaggerIdle

\* api.playExitAnimation(), once per element as the boundary's guards
\* (exitingElements, currentlyExiting) ensure.
ApiPlayExit(e) ==
  /\ mode = "api" /\ e \in exitRegistry
  /\ playCalls[e] = 0
  /\ Commit(playExitAnimation(Cur, e))
  /\ UNCHANGED staggerVars

\* api.cancelExitAnimation(), at any time.
ApiCancel(e) ==
  /\ mode = "api" /\ e \in exitRegistry
  /\ cancelCalls[e] < MaxCancel
  /\ Commit([cancelExitAnimation(Cur, e) EXCEPT !.cancelCalls[e] = @ + 1])
  /\ UNCHANGED staggerVars

\* The caller awaiting the promise of playExitAnimation resumes.
ApiContinuation(e) ==
  /\ mode = "api" /\ e \in conts
  /\ Commit([Cur EXCEPT !.conts = @ \ {e}])
  /\ UNCHANGED staggerVars

NextApi ==
  \/ \E e \in Els : ApiPlayExit(e)
  \/ \E e \in Els : ApiCancel(e)
  \/ \E e \in Els : PlainExitComplete(e)
  \/ \E e \in Els : ApiContinuation(e)
  \/ \E h \in 1..Len(handles) : EnterComplete(h)

SpecApi == InitApi /\ [][NextApi]_vars

\* Everything a cancellation could change, its call counter excepted.
ControllerState == <<ctl, handles, conts, exitRegistry, exitingElements, listeners,
                     doneCalls, playCalls, children, records, mount>>

\* C6: a call of cancelExitAnimation made while no exit animation of the
\* element is in flight (none was started, it has finished, or it was
\* cancelled by the call before) changes nothing; no call resolves a
\* promise that is already resolved; and after every call no exit animation
\* is in flight and the promise of an earlier playExitAnimation is settled.
C6_CancelIdempotentAndSafe ==
  [][\A e \in Els :
       cancelCalls'[e] = cancelCalls[e] + 1 =>
         /\ ctl[e].exitAnimation = None => UNCHANGED ControllerState
         /\ ctl[e].promise = "resolved" => ctl'[e].resolveCalls = ctl[e].resolveCalls
         /\ ctl'[e].resolveCalls <= 1
         /\ ctl'[e].exitAnimation = None /\ ~ctl'[e].exitAnimationResolve
         /\ ctl'[e].promise # "pending"]_vars

\* C6 witness: element 1 was cancelled twice, the first time with its exit
\* in flight; element 2 was cancelled after its exit had completed; element
\* 3 was cancelled although its exit was never started.
C6_Witness ==
  /\ mode = "api"
  /\ cancelCalls[1] = 2 /\ ExitCancelled(1) /\ ctl[1].resolveCalls = 1
  /\ cancelCalls[2] >= 1 /\ ExitCompleted(2) /\ ctl[2].resolveCalls = 1
  /\ cancelCalls[3] >= 1 /\ playCalls[3] = 0 /\ ctl[3].promise = "none"

(***************************************************************************)
(* Properties of the registry and of the list-mode interceptor.            *)
(***************************************************************************)

\* The step disposes the owner of the controller of e (its cleanups run).
Unmounted(e) == ctl[e].alive /\ ~ctl'[e].alive

\* C11: a controller under a boundary is registered only if it has an exit
\* animation; the step that unmounts a controller with an exit animation
\* leaves its registry entry in place, and the entry stays until the
\* continuation of its played exit has run, so the interceptor that looks
\* the element up after the unmount finds it.
C11_ExitEntrySurvivesUnmount ==
  /\ [](\A e \in Els :
          /\ e \in exitRegistry => ctl[e].created /\ ctl[e].exit
          /\ (ctl[e].created /\ ctl[e].exit /\ e \notin exitRegistry)
               => (playCalls[e] = 1 /\ ctl[e].promise = "resolved" /\ e \notin conts))
  /\ [][\A e \in Els :
          Unmounted(e) =>
            /\ (e \in exitRegistry') = (e \in exitRegistry)
            /\ ctl[e].exit => e \in exitRegistry']_vars

\* C11 witness: the controller of element 1 was unmounted, its entry was
\* still there when the interceptor looked it up, and its exit is playing.
C11_Witness ==
  /\ mode = "list"
  /\ ctl[1].exit /\ ~ctl[1].alive
  /\ 1 \in exitRegistry /\ 1 \in exitingElements
  /\ playCalls[1] = 1 /\ ctl[1].promise = "pending"

(***************************************************************************)
(* Part 8. The presence context's registry, called directly: register and  *)
(* unregister in any order, on any element, with any descriptor.           *)
(***************************************************************************)

\* Descriptors a caller may register.
MaxApi == 2

\* Largest number of calls made on the registry.
MaxCalls == 3

Apis == 1..MaxApi

InitRegistry ==
  /\ StartIn(BlankWorld("registry", TRUE, TRUE, FALSE))
  /\ StaggerIdle

\* presenceContext.register(element, api).
RegistryRegister(e, api) ==
  /\ mode = "registry" /\ Len(calls) < MaxCalls
  /\ Commit([register(Cur, e, api) EXCEPT
               !.calls = Append(@, [op |-> "register", el |-> e, api |-> api])])
  /\ UNCHANGED staggerVars

\* presenceContext.unregister(element).
RegistryUnregister(e) ==
  /\ mode = "registry" /\ Len(calls) < MaxCalls
  /\ Commit([unregister(Cur, e) EXCEPT
               !.calls = Append(@, [op |-> "unregister", el |-> e, api |-> None])])
  /\ UNCHANGED staggerVars

NextRegistry ==
  \/ \E e \in Els, api \in Apis : RegistryRegister(e, api)
  \/ \E e \in Els : RegistryUnregister(e)

SpecRegistry == InitRegistry /\ [][NextRegistry]_vars

\* The descriptor of the last call on e, None when there is none or it is
\* an unregister.
LastWrite(log, e) ==
  LET on == {i \in 1..Len(log) : log[i].el = e}
  IN  IF on = {} THEN None
      ELSE LET last == CHOOSE i \in on : \A j \in on : j <= i
           IN  IF log[last].op = "register" THEN log[last].api ELSE None

\* C12: after any sequence of register and unregister calls the lookup of
\* an element returns the descriptor of the most recent register not
\* followed by an unregister; an unregister of an absent element and a
\* register of the descriptor the element already has leave every lookup
\* and the set of entries as they were.
C12_RegistryLastWriteWins ==
  /\ [](mode = "registry" => \A e \in Els : registryGet(Cur, e) = LastWrite(calls, e))
  /\ [][(mode = "registry" /\ Len(calls') = Len(calls) + 1) =>
          LET c == calls'[Len(calls')]
          IN  (\/ (c.op = "unregister" /\ c.el \notin exitRegistry)
               \/ (c.op = "register" /\ registryGet(Cur, c.el) = c.api))
              => /\ exitRegistry' = exitRegistry
                 /\ \A e \in Els : registryGet(Cur, e)' = registryGet(Cur, e)]_vars

\* C12 witness: element 1 was registered, unregistered and registered with
\* another descriptor, and the lookup returns the last one.
C12_Witness ==
  /\ mode = "registry" /\ Len(calls) = 3
  /\ calls[1] = [op |-> "register", el |-> 1, api |-> 1]
  /\ calls[2] = [op |-> "unregister", el |-> 1, api |-> None]
  /\ calls[3] = [op |-> "register", el |-> 1, api |-> 2]
  /\ registryGet(Cur, 1) = 2

\* C13 as stated: no call of handleMutations ends in an exception, whatever
\* the batch: entry missing, element already exiting, or a recorded next
\* sibling that is no longer a child of the target.
C13_Original ==
  mode = "list" => threw = 0

(***************************************************************************)
(* Properties of the group's exit interception.                            *)
(***************************************************************************)

\* The step is a run of the group's observer callback.
GroupDelivered == mode = "group" /\ records # <<>> /\ ~inTask'

\* C14: a node of a group never has more than one exit animation, and a run
\* of the observer callback starts no exit animation on a node that was
\* already tracked as exiting and does not put such a node back into the
\* container when it is detached.
C14_MidExitRemovalIgnored ==
  /\ [](mode = "group" =>
          \A n \in 1..MaxGroupEl : Cardinality(HandlesOf(n, "exit")) <= 1)
  /\ [][GroupDelivered =>
          \A n \in exitingChildren :
            /\ HandlesIn(handles', n, "exit") = HandlesOf(n, "exit")
            /\ n \notin SeqToSet(children) => n \notin SeqToSet(children')]_vars

\* C14 witness: the exit of node 2 has completed, the record of the group's
\* own node.remove() was handed to the observer, and node 2 is detached
\* with its one exit animation.
C14_Witness ==
  /\ mode = "group" /\ groupExit
  /\ 2 \in exitingChildren /\ 2 \notin SeqToSet(children)
  /\ records = <<>> /\ ~inTask
  /\ Cardinality(HandlesOf(2, "exit")) = 1
  /\ \E h \in HandlesOf(2, "exit") : handles[h].st = "completed"

\* C15 as stated: a node whose removal was intercepted stays attached to the
\* container for as long as its exit animation has not completed, whatever
\* further structural changes arrive.
C15_Original ==
  (mode = "group" /\ groupExit) =>
    \A n \in exitingChildren :
      (\E h \in HandlesOf(n, "exit") : handles[h].st = "running")
        => n \in SeqToSet(children)

(***************************************************************************)
(* Properties of the nested case of list mode.                             *)
(***************************************************************************)

\* The children of the wrapper that handleMutations would intercept now.
WrapperHits == {e \in Els : parentOf[e] = Wrapper /\ Interceptable(Cur, e)}

\* The step is a run of handleMutations on a batch that reports the
\* wrapper as removed while one of its children can be intercepted.
NestedDelivered ==
  /\ mode = "list" /\ records # <<>> /\ ~inTask'
  /\ Wrapper \in RemovedIn(records)
  /\ WrapperHits # {}

\* C16 as stated: when the removed wrapper has a child with a registered
\* exit, the run of handleMutations invokes that child's playExitAnimation
\* and leaves the wrapper attached again; the wrapper stays attached while
\* that child's exit runs; and the continuation of the completed exit
\* removes the child's mark and registry entry and detaches the wrapper.
C16_Original ==
  /\ [][NestedDelivered =>
          LET c == CHOOSE e \in WrapperHits : \A x \in WrapperHits : e <= x
          IN  /\ playCalls'[c] = playCalls[c] + 1
              /\ Wrapper \in SeqToSet(children')]_vars
  /\ [](mode = "list" =>
          \A e \in exitingElements :
            (parentOf[e] = Wrapper /\ ctl[e].exitAnimation # None)
              => Wrapper \in SeqToSet(children))
  /\ [][\A e \in conts :
          (mode = "list" /\ parentOf[e] = Wrapper /\ e \notin conts')
            => /\ e \notin exitingElements' /\ e \notin exitRegistry'
               /\ Wrapper \notin SeqToSet(children')]_vars

(***************************************************************************)
(* Part 9. The Anime controller on its own: controllers rendered with or   *)
(* without a presence context, whose enter parameters change and whose     *)
(* context closes and opens the mount gate.                                *)
(***************************************************************************)

\* Controllers rendered.
MaxControllers == 2

\* Largest number of changes of one controller's enter parameters.
MaxChanges == 2

\* A presence context (when hp) or none, nothing rendered under it yet.
InitAnime ==
  /\ \E hp \in BOOLEAN : StartIn(BlankWorld("anime", hp, TRUE, FALSE))
  /\ StaggerIdle

\* Anime(props) is rendered with an initial state: the component function
\* runs, then its effects.
AnimeRender(hasAnimate, hasExit) ==
  /\ mode = "anime" /\ nextEl <= MaxControllers
  /\ Commit(RunEffects(CreateChild(Cur, TRUE, hasAnimate, hasExit), nextEl))
  /\ UNCHANGED staggerVars

\* The context writes true to the mount signal: the mount effects that read
\* it run again.
AnimeOpenGate ==
  /\ mode = "anime" /\ hasPresence /\ ~mount
  /\ Commit(RerunMountEffects([Cur EXCEPT !.mount = TRUE]))
  /\ UNCHANGED staggerVars

\* The context writes false to the mount signal.
AnimeCloseGate ==
  /\ mode = "anime" /\ hasPresence /\ mount
  /\ Commit(RerunMountEffects([Cur EXCEPT !.mount = FALSE]))
  /\ UNCHANGED staggerVars

\* local.animate ?? local.animation of the live controller of e changes, to
\* new parameters when defined and to undefined otherwise: the effects that
\* read it run again, in creation order.
AnimeParamsChange(e, defined) ==
  /\ mode = "anime" /\ ctl[e].alive
  /\ ctl[e].changes < MaxChanges
  /\ defined \/ ctl[e].animate
  /\ LET w1 == [Cur EXCEPT !.ctl[e].animate = defined, !.ctl[e].changes = @ + 1]
     IN  Commit(UpdateEffect(MountEffect(w1, e), e))
  /\ UNCHANGED staggerVars

\* The owner of the controller of e is disposed.
AnimeUnmount(e) ==
  /\ mode = "anime" /\ ctl[e].alive
  /\ Commit(Cleanup(Cur, e))
  /\ UNCHANGED staggerVars

NextAnime ==
  \/ \E hasAnimate \in BOOLEAN, hasExit \in BOOLEAN : AnimeRender(hasAnimate, hasExit)
  \/ AnimeOpenGate
  \/ AnimeCloseGate
  \/ \E e \in 1..MaxControllers, defined \in BOOLEAN : AnimeParamsChange(e, defined)
  \/ \E e \in 1..MaxControllers : AnimeUnmount(e)
  \/ \E h \in 1..Len(handles) : EnterComplete(h)

SpecAnime == InitAnime /\ [][NextAnime]_vars

\* The enter handles of e the engine is still driving.
EnterRunning(e) == {h \in HandlesOf(e, "enter") : handles[h].st = "running"}

\* The step changes the enter parameters of the initialized controller of e
\* to new (defined) parameters.
EnterParamsChanged(e) ==
  /\ ctl'[e].changes = ctl[e].changes + 1
  /\ ctl[e].hasInitialized /\ ctl'[e].animate

\* C17: a controller never has two enter handles running, and every change
\* of the enter parameters of an initialized controller to new parameters
\* starts exactly one new enter animation on its element, which becomes the
\* controller's current animation, with every enter handle started earlier
\* no longer running.
C17_ParamsChangeRestartsEnter ==
  /\ [](\A e \in Els : Cardinality(EnterRunning(e)) <= 1)
  /\ [][\A e \in Els :
          EnterParamsChanged(e) =>
            /\ Len(handles') = Len(handles) + 1
            /\ handles'[Len(handles')].el = e
            /\ handles'[Len(handles')].kind = "enter"
            /\ handles'[Len(handles')].st = "running"
            /\ ctl'[e].currentAnimation = Len(handles')
            /\ \A h \in HandlesOf(e, "enter") : handles'[h].st # "running"]_vars

\* C17 witness: the parameters of controller 1 changed twice after it had
\* initialized; the handle of the first change was paused while running,
\* and the handle of the second change is the one running.
C17_Witness ==
  /\ mode = "anime" /\ ctl[1].changes = 2 /\ ctl[1].animate
  /\ Cardinality(HandlesOf(1, "enter")) = 4
  /\ EnterRunning(1) = {ctl[1].currentAnimation}
  /\ \A h \in HandlesOf(1, "enter") \ EnterRunning(1) : handles[h].st = "paused"

\* The controller of e has applied its initial state or started an enter
\* animation.
HasApplied(e) == HandlesOf(e, "initial") # {} \/ HandlesOf(e, "enter") # {}

\* The mount gate as the controllers see it: open when there is no context.
GateOpen == ~hasPresence \/ mount

\* C18: a controller that has not initialized has applied neither its
\* initial state nor an enter animation, and a controller initializes only
\* in a step that leaves the gate open; whenever the gate
\* is open every live controller has initialized, with its initial state
\* applied and its enter animation started when it has these parameters. A
\* controller without a context is always initialized and the registry
\* stays empty.
C18_MountGate ==
  /\ [](\A e \in Els :
          /\ ~ctl[e].hasInitialized => ~HasApplied(e)
          /\ (ctl[e].alive /\ GateOpen) =>
               /\ ctl[e].hasInitialized
               /\ ctl[e].initial => HandlesOf(e, "initial") # {}
               /\ (ctl[e].animate /\ ctl[e].changes = 0) => HandlesOf(e, "enter") # {}
          /\ ~hasPresence => (mount /\ exitRegistry = {}))
  /\ [][\A e \in Els :
          (~ctl[e].hasInitialized /\ ctl'[e].hasInitialized) => GateOpen']_vars

\* C18 witness: controller 1 was rendered under a context whose gate was
\* closed and initialized when the gate opened: it is initialized with its
\* initial state applied and one enter animation, its parameters unchanged
\* (a controller rendered with the gate open has started two).
C18_Witness ==
  /\ mode = "anime" /\ hasPresence /\ mount
  /\ ctl[1].hasInitialized /\ ctl[1].changes = 0
  /\ HandlesOf(1, "initial") # {}
  /\ Cardinality(HandlesOf(1, "enter")) = 1

(***************************************************************************)
(* Further properties of the single-child mode.                            *)
(***************************************************************************)

\* The elements whose exit animation the engine is still driving.
RunningExits == {e \in Els : \E h \in HandlesOf(e, "exit") : handles[h].st = "running"}

\* C19: in single mode, under either policy, at most one element has an
\* exit animation running, and it is the element recorded as currently
\* exiting; a step that calls playExitAnimation on an element begins with
\* no exit running and none recorded, and ends with no other element's exit
\* running.
C19_OneExitAtATime ==
  /\ [](mode = "single" =>
          /\ Cardinality(RunningExits) <= 1
          /\ RunningExits \subseteq {currentlyExiting})
  /\ [][\A e \in Els :
          (mode = "single" /\ playCalls'[e] > playCalls[e]) =>
            /\ RunningExits' \subseteq {e}
            /\ (RunningExits = {} /\ currentlyExiting = None)]_vars

\* C19 witness: child 1 has exited, its exit run to completion or cancelled,
\* and the exit of child 2, started later, is the one in flight.
C19_Witness ==
  /\ mode = "single"
  /\ playCalls[1] = 1 /\ playCalls[2] = 1
  /\ (ExitCompleted(1) \/ ExitCancelled(1))
  /\ RunningExits = {2} /\ currentlyExiting = 2

(***************************************************************************)
(* Part 10. createStagger with linear easing, called for the indices       *)
(* 0 .. total - 1 of a list in turn (for index 0 when the list is empty).  *)
(* stagger holds the options, total the second argument and delays the     *)
(* values returned so far.                                                 *)
(***************************************************************************)

StaggerBases == {10, 50, 100}
StaggerFroms == {"start", "end", "center"}

InitCreateStagger ==
  /\ \E b \in StaggerBases, f \in StaggerFroms :
       stagger = [kind |-> "created", base |-> b, from |-> f]
  /\ direction = "forward"
  /\ total \in 0..MaxN
  /\ delays = <<>>
  /\ PresenceIdle

\* The function createStagger returned is called with the next index.
CreateStaggerCall ==
  /\ stagger.kind = "created"
  /\ Len(delays) < total \/ delays = <<>>
  /\ delays' = Append(delays, createStagger(stagger.base, stagger.from, Len(delays), total))
  /\ UNCHANGED <<stagger, direction, total, presenceVars>>

NextCreateStagger == CreateStaggerCall

SpecCreateStagger == InitCreateStagger /\ [][NextCreateStagger]_vars

\* C20: the value createStagger's linear function returns for index k - 1 is
\* 0 when total <= 1; otherwise base * index from the start and
\* base * (total - 1 - index) from the end (so 0 and base * (total - 1) at
\* the two ends); from the center with odd total it is 0 for the middle
\* index and greater than 0 for every other index.
C20_CreateStaggerLinear ==
  stagger.kind = "created" =>
    \A k \in 1..Len(delays) :
      LET index == k - 1
          base  == stagger.base
      IN  /\ total <= 1 => delays[k] = 0
          /\ (total > 1 /\ stagger.from = "start") =>
               /\ delays[k] = base * index
               /\ index = 0 => delays[k] = 0
               /\ index = total - 1 => delays[k] = base * (total - 1)
          /\ (total > 1 /\ stagger.from = "end") =>
               /\ delays[k] = base * ((total - 1) - index)
               /\ index = 0 => delays[k] = base * (total - 1)
               /\ index = total - 1 => delays[k] = 0
          /\ (total > 1 /\ stagger.from = "center" /\ total % 2 = 1) =>
               IF index = (total - 1) \div 2 THEN delays[k] = 0 ELSE delays[k] > 0

\* C20 witness: the test's function, createStagger({base: 50, from:
\* "center"}), called for the five indices of a list of five.
C20_Witness ==
  /\ stagger = [kind |-> "created", base |-> 50, from |-> "center"]
  /\ total = 5 /\ Len(delays) = 5
  /\ delays[3] = 0 /\ delays[1] > delays[3]

(***************************************************************************)
(* Part 11. The presence API of controllers whose elements leave the tree: *)
(* the harness of Part 7 with two controllers, whose elements are children *)
(* of one container and can be detached from it.                           *)
(***************************************************************************)

\* Controllers rendered under the boundary.
MaxAttached == 2

\* Controllers with an exit animation rendered under a boundary, their
\* elements appended to the container.
ConstructAttached(hasAnimate) ==
  LET F[i \in 0..MaxAttached] ==
        IF i = 0 THEN BlankWorld("api", TRUE, TRUE, FALSE)
        ELSE [RunEffects(CreateChild(F[i - 1], TRUE, hasAnimate, TRUE), i)
                EXCEPT !.children = Append(@, i)]
  IN  F[MaxAttached]

InitDetached ==
  /\ \E hasAnimate \in BOOLEAN : StartIn(ConstructAttached(hasAnimate))
  /\ StaggerIdle

\* The element of e is removed from the tree by its owner; no observer
\* watches the container.
ApiDetach(e) ==
  /\ mode = "api" /\ e \in SeqToSet(children)
  /\ Commit([Cur EXCEPT !.children = Without(@, e)])
  /\ UNCHANGED staggerVars

NextDetached ==
  \/ NextApi
  \/ \E e \in Els : ApiDetach(e)

SpecDetached == InitDetached /\ [][NextDetached]_vars

\* C21 as stated: a call of playExitAnimation on a controller whose element
\* is not attached starts no animation, dispatches no completion event and
\* returns a promise that is already resolved.
C21_Original ==
  [][\A e \in Els :
       (playCalls'[e] = playCalls[e] + 1 /\ e \notin SeqToSet(children)) =>
         /\ handles' = handles
         /\ ctl'[e].completeEvents = ctl[e].completeEvents
         /\ ctl'[e].promise = "resolved"]_vars

\* C22: in single mode, under both policies, the mount gate is closed
\* exactly when the callback the transition called last is onExit: it is
\* open before the first callback and after every onEnter, closed after
\* every onExit, whether or not the exiting element has an exit descriptor,
\* and a step that calls neither callback leaves it as it is.
C22_GateFollowsLastEvent ==
  /\ [](mode = "single" => (~mount <=> lastEvent = "exit"))
  /\ [][(mode = "single" /\ lastEvent' = lastEvent /\ doneCalls' = doneCalls
         /\ playCalls' = playCalls /\ returned' = returned) => mount' = mount]_vars

\* C22 witness: the only child, which has no exit descriptor, was withdrawn
\* with no replacement and its removal is finalized; the gate is closed and
\* stays so while nothing is rendered.
C22_Witness ==
  /\ mode = "single" /\ ~mount /\ lastEvent = "exit"
  /\ prev = None /\ returned = <<>> /\ next = None
  /\ ~ctl[1].exit /\ doneCalls[1] = 1 /\ playCalls[1] = 0
  /\ nextEl = 2

\* The element onEnter finds recorded as currently exiting in a step that
\* declares a new child: the one recorded before the step, or the rendered
\* child whose exit the step itself starts first; None when there is none.
ExitingAtEnter ==
  IF currentlyExiting # None THEN currentlyExiting
  ELSE IF prev # None /\ playCalls'[prev] > playCalls[prev] THEN prev
  ELSE None

\* A step in which, under the parallel policy, onEnter runs for a new child
\* while an element is recorded as currently exiting.
ParallelEnterOverExit ==
  /\ mode = "single" /\ ~exitBeforeEnter
  /\ prev' # None /\ prev' # prev
  /\ ExitingAtEnter # None

\* C23: under the parallel policy, a step in which a new child enters while
\* an element x is recorded as currently exiting cancels x's exit (the exit
\* handle is paused, its promise resolved, no animecomplete dispatched),
\* deletes x's registry entry, calls x's done callback once in that step so
\* that x is no longer rendered, clears currentlyExiting and leaves the
\* gate open, with the new child rendered and its enter animation running.
C23_ParallelEnterCancelsExit ==
  [][ParallelEnterOverExit =>
       LET x == ExitingAtEnter
       IN  /\ \A h \in HandlesIn(handles', x, "exit") : handles'[h].st = "paused"
           /\ ctl'[x].exitAnimation = None /\ ctl'[x].promise = "resolved"
           /\ ctl'[x].completeEvents = ctl[x].completeEvents
           /\ x \notin exitRegistry'
           /\ doneCalls'[x] = doneCalls[x] + 1
           /\ x \notin SeqToSet(returned')
           /\ currentlyExiting' = None
           /\ mount'
           /\ prev' \in SeqToSet(returned')
           /\ \E h \in HandlesIn(handles', prev', "enter") : handles'[h].st = "running"]_vars

\* C23 witness: under the parallel policy child 2 was declared while the
\* exit of child 1 was recorded; 2 is rendered, the exit of 1 cancelled and
\* 1 finalized.
C23_Witness ==
  /\ mode = "single" /\ ~exitBeforeEnter
  /\ ExitCancelled(1) /\ doneCalls[1] = 1 /\ 1 \notin exitRegistry
  /\ returned = <<2>> /\ mount /\ currentlyExiting = None
  /\ playCalls[2] = 0

\* AnimePresence(props) in single mode with exitBeforeEnter given.
InitSingleOutIn == InitSingle /\ exitBeforeEnter

\* Single mode under exit-before-enter with its scheduling: the engine
\* completes an exit animation that is running, and a queued promise
\* continuation runs.
SpecSingleFair ==
  /\ InitSingleOutIn
  /\ [][NextSingle]_vars
  /\ WF_vars(\E e \in Els : ExitComplete(e))
  /\ WF_vars(\E e \in Els : SingleContinuation(e))

\* Under exit-before-enter the exit of a is in progress and b waits to enter.
EnterPending(a, b) ==
  /\ mode = "single" /\ exitBeforeEnter
  /\ isExiting /\ currentlyExiting = a /\ next = b

\* a is finalized: done called once, rendered no more, registry entry gone.
Finalized(a) ==
  /\ ExitCompleted(a) /\ doneCalls[a] = 1
  /\ a \notin Rendered /\ a \notin exitRegistry

\* Some child waits for the exit of another, under exit-before-enter.
SomeEnterPending == \E a \in Els : \E b \in Els : EnterPending(a, b)

\* Every exit that was played is finalized, and every child still declared
\* has had its enter animation started.
AllSettled ==
  /\ \A a \in Els : playCalls[a] > 0 => Finalized(a)
  /\ \A b \in Els : ctl[b].alive => HandlesOf(b, "enter") # {}

\* C24: under exit-before-enter, whenever a child waits for the exit of
\* another, eventually every played exit is finalized (its animation
\* completed, done called once, registry entry deleted) and every child
\* still declared has had its enter animation started; the step in which
\* the exit of a completes while b waits ends with done called for a, the
\* gate open and b rendered with its enter animation running; and the
\* transition is never left exiting an element whose exit has completed.
C24_PendingChildEventuallyEnters ==
  /\ SomeEnterPending ~> AllSettled
  /\ [][\A a \in Els : \A b \in Els :
          (EnterPending(a, b) /\ ExitCompleted(a)') =>
            /\ doneCalls'[a] = 1 /\ a \notin Rendered'
            /\ mount' /\ ~isExiting' /\ returned' = <<b>>
            /\ \E h \in HandlesIn(handles', b, "enter") : handles'[h].st = "running"]_vars
  /\ [](\A a \in Els :
          (mode = "single" /\ isExiting /\ currentlyExiting = a) => ~ExitCompleted(a))

\* C24 witness: under exit-before-enter child 2 waited for the exit of
\* child 1; the exit has completed, 1 is finalized with its registry entry
\* deleted, the gate is open and 2 is rendered and entering.
C24_Witness ==
  /\ mode = "single" /\ exitBeforeEnter
  /\ Finalized(1) /\ mount /\ ~isExiting
  /\ returned = <<2>> /\ \E h \in HandlesOf(2, "enter") : handles[h].st = "running"
  /\ ctl[2].alive

(***************************************************************************)
(* Further properties of the controller's presence API.                    *)
(***************************************************************************)

\* C25: no controller ever has an enter handle and an exit handle running
\* together, and a step that calls playExitAnimation on a controller with
\* an exit descriptor starts an exit animation and leaves every enter
\* handle of the controller paused or completed and the controller without
\* a current animation.
C25_ExitRetiresEnter ==
  /\ [](\A e \in Els : ~(EnterRunning(e) # {} /\ e \in RunningExits))
  /\ [][\A e \in Els :
          (playCalls'[e] > playCalls[e] /\ ctl[e].exit) =>
            /\ \A h \in EnterRunning(e) : handles'[h].st = "paused"
            /\ \A h \in HandlesIn(handles', e, "enter") : handles'[h].st # "running"
            /\ ctl'[e].currentAnimation = None
            /\ HandlesIn(handles', e, "exit") # HandlesOf(e, "exit")]_vars

\* C25 witness: playExitAnimation was called on controller 1 while its enter
\* animation was running: the enter handles are paused, none completed, and
\* the exit handle is running.
C25_Witness ==
  /\ mode = "api"
  /\ HandlesOf(1, "enter") # {}
  /\ \A h \in HandlesOf(1, "enter") : handles[h].st = "paused"
  /\ 1 \in RunningExits /\ ctl[1].currentAnimation = None

(***************************************************************************)
(* Further properties of AnimeGroup.                                       *)
(***************************************************************************)

\* The handles of the group that the engine is still driving on node n.
GroupRunning(n) == {h \in 1..Len(handles) : handles[h].el = n /\ handles[h].st = "running"}

\* C26 as stated: the group never has two running handles on the same
\* child; a handle still running on a child is paused before another
\* animation is started on it.
C26_Original ==
  mode = "group" => \A n \in 1..MaxGroupEl : Cardinality(GroupRunning(n)) <= 1

\* C27 as stated: no run of the observer's callback starts both an enter
\* animation and an exit animation on the same node, in particular not on
\* a node the batch reports both as added and as removed.
C27_Original ==
  [][GroupDelivered =>
       \A n \in 1..MaxGroupEl :
         ~ /\ HandlesIn(handles', n, "enter") # HandlesOf(n, "enter")
           /\ HandlesIn(handles', n, "exit") # HandlesOf(n, "exit")]_vars

\* The child list before the removals a batch of removal records reports:
\* the records undone from the last to the first, each putting its node
\* back before the next sibling it recorded.
OrderBefore(list, batch) ==
  LET F[i \in 0..Len(batch)] ==
        IF i = 0 THEN list
        ELSE LET r == batch[Len(batch) + 1 - i]
             IN  IF r.next = None THEN Append(F[i - 1], r.rem)
                 ELSE InsertAt(F[i - 1], IndexOf(F[i - 1], r.next), r.rem)
  IN  F[Len(batch)]

\* The step is a run of the callback of a group with exit on a batch of
\* two or more removals of children that were not exiting.
SeveralRemovalsDelivered ==
  /\ GroupDelivered /\ groupExit
  /\ Len(records) >= 2
  /\ \A i \in 1..Len(records) :
       /\ records[i].rem # None
       /\ records[i].rem \notin exitingChildren
       /\ records[i].rem \notin SeqToSet(children)

\* C28 as stated: when several children are removed in one batch, the run
\* of the callback puts each back at its own position, so that the
\* container's children are in the order they had before the removals; and
\* the completion of one exit detaches its node and nothing else.
C28_Original ==
  [][/\ SeveralRemovalsDelivered => children' = OrderBefore(children, records)
     /\ \A h \in 1..Len(handles) :
          (mode = "group" /\ handles[h].kind = "exit"
           /\ handles[h].st = "running" /\ handles'[h].st = "completed")
            => children' = Without(children, handles[h].el)]_vars

(***************************************************************************)
(* Part 12. An AnimeGroup whose stagger, direction and animation delay     *)
(* vary: the delays of the children a batch adds.                          *)
(***************************************************************************)

\* The values of props.animation.delay the groups are mounted with.
AnimationDelays == {0, 20, FunctionDelay}

\* The values of props.stagger the groups are mounted with.
BatchStaggers == {NoStagger, [kind |-> "number", ms |-> 10]}

InitGroupBatch ==
  /\ stagger \in BatchStaggers /\ direction \in Directions
  /\ total = 0 /\ delays = <<>>
  /\ \E ge \in BOOLEAN, k \in 0..MaxGroupInitial, d \in AnimationDelays :
       StartIn(ConstructGroup(ge, FALSE, k, d))

SpecGroupBatch == InitGroupBatch /\ [][NextGroup]_vars

\* The children a batch adds: the added nodes the group has neither
\* animated in nor is animating out, in the order of their first record.
BatchAdded ==
  LET F[i \in 0..Len(records)] ==
        IF i = 0 THEN <<>>
        ELSE LET x == records[i].add
             IN  IF x # None /\ x \notin initializedChildren
                    /\ x \notin exitingChildren /\ x \notin SeqToSet(F[i - 1])
                 THEN Append(F[i - 1], x) ELSE F[i - 1]
  IN  F[Len(records)]

\* The enter animations a step starts, in call order.
EnterStarted ==
  LET F[i \in Len(handles)..Len(handles')] ==
        IF i = Len(handles) THEN <<>>
        ELSE IF handles'[i].kind = "enter" THEN Append(F[i - 1], handles'[i])
        ELSE F[i - 1]
  IN  F[Len(handles')]

\* C29 as stated: a run of the callback on a batch that adds k new children
\* starts one enter animation per new child, the j-th with the delay
\* props.animation.delay + stagger * position(j, k), the position counted
\* within the batch; the animations that existed are left as they were.
C29_Original ==
  [][GroupDelivered =>
       LET k == Len(BatchAdded)
           d == IF stagger.kind = "number" THEN stagger.ms ELSE DefaultStagger
       IN  /\ Len(EnterStarted) = k
           /\ \A j \in 1..k :
                /\ j <= Len(EnterStarted)
                /\ EnterStarted[j].el = BatchAdded[j]
                /\ animationDelay # FunctionDelay =>
                     EnterStarted[j].delay
                       = animationDelay + d * DirectedIndex(direction, j - 1, k)
           /\ \A h \in 1..Len(handles) : handles'[h] = handles[h]]_vars

\* The handles a step adds that apply the initial state or start an enter
\* animation.
EntranceStarted ==
  {h \in (Len(handles) + 1)..Len(handles') : handles'[h].kind \in {"initial", "enter"}}

ExitCompletes(e) ==
  \E h \in HandlesOf(e, "exit") : handles[h].st = "running" /\ handles'[h].st = "completed"

\* The step pauses a running exit animation of e.
ExitPaused(e) ==
  \E h \in HandlesOf(e, "exit") : handles[h].st = "running" /\ handles'[h].st = "paused"

\* C31: the natural completion of an exit started by playExitAnimation
\* dispatches animecomplete once, clears the exit handle and the resolver
\* and resolves the promise; in single-child mode the done callback of the
\* exiting element runs in that step, while the registry entry is left to
\* the promise continuation, which is queued; a cancellation dispatches no
\* event, so a controller has dispatched as many events as it has completed
\* exit animations.
C31_CompletionDispatchesOnce ==
  /\ [](mode = "single" =>
          \A e \in Els :
            ctl[e].completeEvents
              = Cardinality({h \in HandlesOf(e, "exit") : handles[h].st = "completed"}))
  /\ [][mode = "single" =>
          \A e \in Els :
            /\ ExitCompletes(e) =>
                 /\ ctl'[e].completeEvents = ctl[e].completeEvents + 1
                 /\ ctl'[e].exitAnimation = None
                 /\ ~ctl'[e].exitAnimationResolve
                 /\ ctl'[e].promise = "resolved"
                 /\ ctl'[e].resolveCalls = ctl[e].resolveCalls + 1
                 /\ doneCalls'[e] = doneCalls[e] + 1
                 /\ e \in exitRegistry /\ e \in exitRegistry'
                 /\ e \in conts'
            /\ ExitPaused(e) => ctl'[e].completeEvents = ctl[e].completeEvents
            /\ (e \in exitRegistry /\ e \notin exitRegistry' /\ ExitCompleted(e))
                 => (e \in conts /\ e \notin conts' /\ doneCalls'[e] = doneCalls[e])]_vars

\* The exit animation of element 1 has completed: one event, one done call,
\* and the continuation that deletes the registry entry is still queued.
C31_Witness ==
  /\ mode = "single"
  /\ ExitCompleted(1) /\ ctl[1].completeEvents = 1 /\ doneCalls[1] = 1
  /\ 1 \in exitRegistry /\ 1 \in conts

\* The single-child mode and the list mode over an engine that throws on
\* the exit of the elements in faulty.
InitFaulty ==
  /\ StaggerIdle
  /\ \E F \in SUBSET Els :
       \/ \E ip \in BOOLEAN, ebe \in BOOLEAN, withChild \in BOOLEAN, childExit \in BOOLEAN :
            StartIn([ConstructSingle(ip, ebe, withChild, childExit) EXCEPT !.faulty = F])
       \/ \E ip \in BOOLEAN, k \in 0..MaxInitial :
            \E exits \in [1..k -> BOOLEAN] :
              StartIn([ConstructList(ip, k, exits) EXCEPT !.faulty = F])

NextFaulty == NextSingle \/ NextList

SpecFaulty == InitFaulty /\ [][NextFaulty]_vars

\* The boundary has called playExitAnimation on the exit-capable element e
\* and the engine has not completed the exit animation: it threw when the
\* animation was started, or has not signalled the completion of the
\* animation, which nobody cancelled.
Stalled(e) ==
  /\ playCalls[e] > 0 /\ ctl[e].exit
  /\ ~ExitCompleted(e) /\ ~ExitCancelled(e)

\* In list mode an element whose exit has not completed is attached, marked
\* as exiting and registered.
StalledInList ==
  \A e \in Els :
    (mode = "list" /\ Stalled(e)) =>
      /\ e \in SeqToSet(children)
      /\ e \in exitingElements
      /\ e \in exitRegistry

\* Under exit-before-enter the done callback of an element whose exit has
\* not completed was not called, and the child waiting for it is not
\* rendered.
StalledOutIn ==
  \A e \in Els :
    (mode = "single" /\ exitBeforeEnter /\ Stalled(e)) =>
      /\ doneCalls[e] = 0
      /\ isExiting
      /\ next # None => next \notin Rendered

\* C32 as stated: while the engine has not completed an exit, the list
\* boundary keeps the element attached, marked and registered, and the
\* single-child boundary has not called done for it, whatever its policy.
C32_Original ==
  /\ StalledInList
  /\ StalledOutIn
  /\ \A e \in Els : (mode = "single" /\ Stalled(e)) => doneCalls[e] = 0

\* C32, amended: while the engine has not completed an exit, the list
\* boundary keeps the element attached, marked and registered; under
\* exit-before-enter the single-child boundary has not called done and the
\* waiting child is not rendered; in parallel mode done is called for such
\* an element only by the onEnter of a later child, which finalizes it.
C32_FailedExitNotFinalized ==
  /\ [](StalledInList /\ StalledOutIn)
  /\ [][\A e \in Els :
          (mode = "single" /\ Stalled(e)' /\ doneCalls'[e] > doneCalls[e]) =>
            /\ ~exitBeforeEnter
            /\ lastEvent' = "enter"
            /\ currentlyExiting' = None
            /\ e \notin exitRegistry'
            /\ e \notin Rendered']_vars

\* The engine threw on the exit of element 1 of a list, which stays in the
\* container, and the host is idle.
C32_Witness ==
  /\ mode = "list" /\ 1 \in faulty
  /\ playCalls[1] = 1 /\ ctl[1].promise = "rejected"
  /\ HandlesOf(1, "exit") = {}
  /\ 1 \in SeqToSet(children) /\ 1 \in exitingElements /\ 1 \notin declared
  /\ records = <<>> /\ conts = {} /\ ~inTask

\* The list mode of a list that only loses children, with every exit that
\* was started completing in the end: the observer's callback, the engine's
\* completion and the promise continuations are not postponed for ever.
NextListFair ==
  \/ \E e \in Els : ListRemove(e)
  \/ ListDeliver
  \/ \E e \in Els : PlainExitComplete(e)
  \/ \E e \in Els : ListContinuation(e)

SpecListFair ==
  /\ InitList
  /\ [][NextListFair]_vars
  /\ WF_vars(ListDeliver)
  /\ WF_vars(\E e \in Els : PlainExitComplete(e))
  /\ WF_vars(\E e \in Els : ListContinuation(e))

\* An exit animation of the list is running or its continuation is queued.
SomeExitInFlight ==
  mode = "list" /\ \E e \in Els : e \in RunningExits \/ e \in conts

\* Every element whose exit was started is detached, unmarked and without
\* a registry entry.
AllExitsFinalized ==
  \A e \in Els :
    playCalls[e] > 0 =>
      /\ e \notin SeqToSet(children)
      /\ e \notin exitingElements
      /\ e \notin exitRegistry

\* The step runs the continuation of the exit of e.
ContinuationRuns(e) == e \in conts /\ e \notin conts'

\* What the list boundary holds about e: its mid-exit mark, its registry
\* entry and its attachment.
ListHolds(e) == <<e \in exitingElements, e \in exitRegistry, e \in SeqToSet(children)>>

\* C33: in list mode the completion of the exit of an intercepted element
\* queues its continuation, which unmarks the element, deletes its registry
\* entry and detaches it, and neither step changes the mark, the entry or
\* the attachment of another element; an element whose exit has completed
\* and whose continuation has run is not marked; and when no completion is
\* postponed for ever, every started exit ends with its element detached,
\* unmarked and unregistered.
C33_ListExitFinalizes ==
  /\ [](mode = "list" =>
          \A e \in Els : (ExitCompleted(e) /\ e \notin conts) => e \notin exitingElements)
  /\ [][mode = "list" =>
          \A e \in Els :
            /\ ExitCompletes(e) =>
                 /\ e \in conts'
                 /\ \A x \in Els \ {e} : ListHolds(x)' = ListHolds(x)
            /\ (ContinuationRuns(e) /\ ctl[e].exit) =>
                 /\ ExitCompleted(e)
                 /\ ListHolds(e)' = <<FALSE, FALSE, FALSE>>
                 /\ \A x \in Els \ {e} : ListHolds(x)' = ListHolds(x)]_vars
  /\ SomeExitInFlight ~> AllExitsFinalized

\* The exits of the elements 1 and 2 were both started; the exit of 1 has
\* completed and its continuation has run, the exit of 2 still runs.
C33_Witness ==
  /\ mode = "list"
  /\ ExitCompleted(1) /\ 1 \notin conts
  /\ ListHolds(1) = <<FALSE, FALSE, FALSE>>
  /\ 2 \in RunningExits
  /\ ListHolds(2) = <<TRUE, TRUE, TRUE>>

(***************************************************************************)
(* Further properties of the Anime controller on its own.                  *)
(***************************************************************************)

\* C34 as stated: a controller whose enter parameters have not changed
\* since it was created has had its enter animation started once when it is
\* initialized with enter parameters, whether the gate was open when it was
\* rendered or opened later, and not at all before.
C34_Original ==
  \A e \in Els :
    (mode = "anime" /\ ctl[e].created /\ ctl[e].changes = 0) =>
      Cardinality(HandlesOf(e, "enter"))
        = IF ctl[e].hasInitialized /\ ctl[e].animate THEN 1 ELSE 0

(***************************************************************************)
(* Further properties of the nested case of list mode.                     *)
(***************************************************************************)

\* The children of the wrapper that are rendered with an exit animation.
ExitCapableWrapped == {e \in Els : parentOf[e] = Wrapper /\ ctl[e].exit}

\* C35 as stated: when the wrapper has two or more exit-capable children,
\* none of them has playExitAnimation invoked more than once, and once the
\* withdrawn wrapper is detached with no record and no continuation left to
\* run, each of them has had it invoked once and its exit has completed.
C35_Original ==
  (mode = "list" /\ Cardinality(ExitCapableWrapped) >= 2) =>
    /\ \A e \in ExitCapableWrapped : playCalls[e] <= 1
    /\ (Wrapper \notin declared /\ Wrapper \notin SeqToSet(children)
        /\ records = <<>> /\ conts = {})
         => \A e \in ExitCapableWrapped : playCalls[e] = 1 /\ ExitCompleted(e)

(***************************************************************************)
(* Reordered children and the mid-exit set of AnimeGroup.                  *)
(***************************************************************************)

\* C36 as stated: a child the declared tree still holds is never
\* exit-animated by an interceptor, and is attached whenever no record is
\* waiting for the observer: in an AnimeGroup with exit it has no exit
\* handle, and in list mode its playExitAnimation was not called.
C36_Original ==
  /\ (mode = "group" /\ groupExit) =>
       \A n \in declared :
         /\ HandlesOf(n, "exit") = {}
         /\ records = <<>> => n \in SeqToSet(children)
  /\ mode = "list" =>
       \A e \in declared \cap Els :
         /\ playCalls[e] = 0
         /\ records = <<>> => RootOf(Cur, e) \in SeqToSet(children)

\* C37 as stated: the group's mid-exit set holds exactly the nodes with an
\* exit animation that was started and whose completion callback has not
\* fired.
C37_Original ==
  (mode = "group" /\ groupExit) =>
    exitingChildren
      = {n \in 1..MaxGroupEl :
           \E h \in HandlesOf(n, "exit") : handles[h].st # "completed"}

(***************************************************************************)
(* Cancellation and the done callback in single-child mode.                *)
(***************************************************************************)

\* C38: under exit-before-enter the boundary never calls
\* cancelExitAnimation, no exit animation is ever paused, and a running
\* exit animation stays running until the engine completes it, whatever is
\* declared or withdrawn meanwhile.
C38_OutInNeverCancels ==
  /\ []((mode = "single" /\ exitBeforeEnter) =>
          \A e \in Els : cancelCalls[e] = 0 /\ ~ExitCancelled(e))
  /\ [][(mode = "single" /\ exitBeforeEnter) =>
          \A h \in 1..Len(handles) :
            (handles[h].kind = "exit" /\ handles[h].st = "running") =>
              /\ handles'[h].st \in {"running", "completed"}
              /\ handles'[h].st = "completed" => ExitCompletes(handles[h].el)]_vars

\* Under exit-before-enter child 2 was declared while the exit of child 1
\* runs: the exit still runs and child 2 waits, not rendered.
C38_Witness ==
  /\ mode = "single" /\ exitBeforeEnter
  /\ 1 \in RunningExits /\ currentlyExiting = 1
  /\ prev = 2 /\ next = 2 /\ 2 \notin Rendered
  /\ cancelCalls[1] = 0

\* The step withdraws the rendered child e, which has no exit descriptor in
\* the registry.
WithdrawnWithoutExit(e) ==
  /\ mode = "single" /\ prev = e /\ prev' # e /\ e \in Rendered
  /\ ~(e \in exitRegistry /\ ctl[e].exit)

\* C39: in single mode the done callback of an element is invoked at most
\* once; it has been invoked once when the element's exit animation has
\* completed or was cancelled, and it is invoked in the step that withdraws
\* an element without exit descriptor, which plays no exit.
C39_DoneAtMostOnce ==
  /\ [](mode = "single" =>
          \A e \in Els :
            /\ doneCalls[e] <= 1
            /\ (ExitCompleted(e) \/ ExitCancelled(e)) => doneCalls[e] = 1
            /\ e \in RunningExits => doneCalls[e] = 0)
  /\ [][\A e \in Els :
          WithdrawnWithoutExit(e) =>
            /\ doneCalls[e] = 0 /\ doneCalls'[e] = 1
            /\ playCalls'[e] = 0
            /\ e \notin Rendered']_vars

\* In parallel mode the exit of child 1 was cancelled by the enter of child
\* 2, and the exit of child 2 has completed: one done call each.
C39_Witness ==
  /\ mode = "single" /\ ~exitBeforeEnter
  /\ ExitCancelled(1) /\ doneCalls[1] = 1
  /\ ExitCompleted(2) /\ doneCalls[2] = 1

==========================================================================
